---------------------------- MODULE Spec2Model ----------------------------
(***************************************************************************)
(* Verification model of src/enter_the_gungeon.py.                         *)
(*                                                                         *)
(* Spec      the level controller (MultiRoomSystem) as a component: its    *)
(*           update, the active room's check_collisions, transition_to_room*)
(*           and the player's movement between updates.                    *)
(* SpecScenario6  Spec on level 1 with Scenario 6's removal of a room id   *)
(*           from rooms_cleared.                                           *)
(* SpecRoom  one room object (a Room or a BossRoom) as a component: its    *)
(*           update, check_collisions, add_player_bullet and spawn_boss,   *)
(*           with its enemies' health and the Boss's special attack.       *)
(* SpecGame  the session's tick in the spawn room (GungeonGame.update),    *)
(*           return_to_spawn, and the level controller of level 1.         *)
(* SpecVolley  a plain Room with two enemies that one bullet can touch.    *)
(* SpecPlayer  the Player under update, dodge_roll, the hits of            *)
(*           check_collisions, check_hazard_damage, the shop and           *)
(*           advance_level.                                                *)
(* SpecCombat  the session's tick in the dungeon, for the player, the      *)
(*           level-complete timer and game_over.                           *)
(* SpecHazard  a HazardRoom from its construction on, for every outcome of *)
(*           its random calls, with update and the player's moves.         *)
(* SpecDoor  Door objects under update with any dt and proximity.          *)
(* SpecDoorFair  the doors updated every frame with the proximity of a     *)
(*           player who moves between three points.                        *)
(* SpecSpawn  the session's tick in the spawn room with the player walking *)
(*           on a grid of points around the spawn room's door.             *)
(* SpecWalls  Room.validate_position on a room with an obstacle block, for *)
(*           an enemy placed anywhere near a corner or near the block.     *)
(* SpecEnemies  two patrolling enemies of a room under Room.update.        *)
(* SpecFire  one enemy's fire timer under update and fire_at_player.       *)
(* SpecPlace, SpecPlaceFair  the three enemy-placement loops, draw by draw.*)
(* SpecFrame  the level controller of level 1 with the projectiles of      *)
(*           every room, rooms being left half played.                     *)
(* SpecDodge, SpecDodgeFair  the Player under update, dodge_roll and       *)
(*           take_damage, with the update time between two dodges.         *)
(* SpecDamage  the combat ticks of a room for a player with armor, with    *)
(*           what touched the player in each tick.                         *)
(* SpecSight  an enemy under the ticks of Room.update: update, then        *)
(*           fire_at_player.                                               *)
(* SpecAdvance  a basic enemy or the Boss under Room.update, with position *)
(*           and timers.                                                   *)
(* SpecShop  the Shop under the key events of handle_events, buy_item, the *)
(*           player's shots and money.                                     *)
(* SpecSession, SpecSessionFair  a game from initialize_game on, tick by   *)
(*           tick; SpecSessionOpen with transition_to_room called as well. *)
(*                                                                         *)
(* The components are driven through their operations: rooms are entered   *)
(* by transition_to_room, whoever calls it.                                *)
(*                                                                         *)
(* Units.  Time is counted in ticks of 1/30 s (the largest dt the game     *)
(* loop passes on, line 2934).  A door's open_progress is counted in       *)
(* tenths, so open_speed * dt = 3.0 * (1/30) is one tenth per tick.        *)
(* Positions are integer points; distances are compared squared.           *)
(* SpecWalls and SpecEnemies count positions in hundredths of a unit,      *)
(* SpecRoom, SpecPlayer, SpecCombat, SpecFire, SpecDodge, SpecDamage,      *)
(* SpecSight and SpecAdvance time in microseconds.                         *)
(* Room ids are the sequences of the words that "_" joins:                 *)
(* "room_1" is <<"room", "1">>, "hazard_room" is <<"hazard", "room">>.     *)
(***************************************************************************)
EXTENDS Integers, Sequences, FiniteSets, TLC

VARIABLES
    level,             \* MultiRoomSystem.level
    rooms,             \* MultiRoomSystem.rooms: id -> room record
    current_room_id,   \* MultiRoomSystem.current_room_id
    doors,             \* MultiRoomSystem.doors: door id -> Door record
    rooms_cleared,     \* MultiRoomSystem.rooms_cleared
    total_rooms,       \* MultiRoomSystem.total_rooms
    teleporter_active, \* MultiRoomSystem.teleporter_active
    enemy_waves,       \* MultiRoomSystem.enemy_waves: id -> sequence of waves
    current_wave,      \* MultiRoomSystem.current_wave: id -> index
    player_pos,        \* Player.pos, <<x, y>>
    room_class,        \* the class of the room object of SpecRoom
    room_enemies,      \* Room.enemies: sequence of enemy records
    player_bullets,    \* Room.player_bullets: sequence of bullet damages
    enemy_bullets,     \* Room.enemy_bullets: length of the list
    room_cleared,      \* Room.cleared
    boss,              \* BossRoom.boss: <<>> for None, else <<the Boss>>
    boss_spawned,      \* BossRoom.boss_spawned
    enemies_killed,    \* GungeonGame.enemies_killed
    room_time,         \* microseconds of Room.update since the Boss joined the list
    special_attacks,   \* number of calls of Boss.special_attack
    burst_bullets,     \* number of special-attack bullets put in enemy_bullets
    in_spawn_room,     \* GungeonGame.in_spawn_room
    spawn_door,        \* GungeonGame.spawn_room.doors[0]: Door record
    player,            \* GungeonGame.player: Player record
    game_over,         \* GungeonGame.game_over
    current_level,     \* GungeonGame.current_level
    level_complete_timer, \* GungeonGame.level_complete_timer, -1 while the attribute is absent
    combat_health,     \* player.health as line 2397 of the last combat tick left it, -1 before
    hazard_room,       \* the HazardRoom object of SpecHazard
    rolls,             \* the outcomes of the random calls of its construction
    walls,             \* Room.walls of the room whose geometry is followed: set of tiles
    enemy_pos,         \* the pos of each of its enemies, in hundredths of a unit
    room_ticks,        \* the number of Room.update calls its enemies were moved by
    fire_enemy,        \* the Enemy whose firing is followed: record, <<>> when none
    fire_shots,        \* the number of bullets its fire_at_player calls have returned
    fire_gap,          \* the dt its update calls were given since its last shot
    placing,           \* the enemy-placement routine that is running: record, <<>> when none
    room_bullets,      \* the projectiles of each room of the level: ages, <<>> when not followed
    dodge_gap,         \* the update time since the last dodge_roll that started a dodge
    dodge_starts,      \* the number of dodges started so far
    last_tick,         \* what the last combat tick found and met, <<>> when not followed
    fire_tick,         \* what the enemy's last tick of Room.update saw and fired
    adv_enemies,       \* the enemies of a room with their position and timers
    adv_ticks,         \* the calls of Room.update these enemies have been through
    shop,              \* the session's Shop: is_open and selected_item
    keys,              \* GungeonGame.keys, the entries 'up' and 'down'
    money,             \* player.money
    guns,              \* player.guns, the ammo of each
    current_gun,       \* player.current_gun
    last_key           \* the key of the KEYDOWN event handled last, "" after anything else

ctlVars == <<level, rooms, current_room_id, doors, rooms_cleared, total_rooms,
             teleporter_active, enemy_waves, current_wave, player_pos>>

roomVars == <<room_class, room_enemies, player_bullets, enemy_bullets, room_cleared,
              boss, boss_spawned, enemies_killed, room_time, special_attacks,
              burst_bullets>>

sessionVars == <<in_spawn_room, spawn_door>>

playerVars == <<player, game_over, current_level, level_complete_timer, combat_health>>

hazardVars == <<hazard_room, rolls>>

geoVars == <<walls, enemy_pos, room_ticks>>

fireVars == <<fire_enemy, fire_shots, fire_gap>>

placeVars == <<placing>>

frameVars == <<room_bullets>>

dodgeVars == <<dodge_gap, dodge_starts>>

tickVars == <<last_tick>>

sightVars == <<fire_tick>>

advVars == <<adv_enemies, adv_ticks>>

shopVars == <<shop, keys, money, guns, current_gun, last_key>>

restVars ==
    <<playerVars, hazardVars, geoVars, fireVars, placeVars, frameVars, dodgeVars,
      tickVars, sightVars, advVars, shopVars>>

vars == <<ctlVars, roomVars, sessionVars, restVars>>

\* ------------------------------------------------------------ bounds
\* At most MaxSpawn enemies of one placement loop are kept in the model.
MaxSpawn == 1

\* ------------------------------------------------------------ helpers
Min(a, b) == IF a < b THEN a ELSE b
Max(a, b) == IF a > b THEN a ELSE b

\* Vector2.distance_to, squared: distance_to(a, b) < r  iff  Dist2(a, b) < r * r
Dist2(a, b) == (a[1] - b[1]) * (a[1] - b[1]) + (a[2] - b[2]) * (a[2] - b[2])

Range(s) == {s[i] : i \in DOMAIN s}

\* the tile of a position: int(pos.x // 16), int(pos.y // 16)
TileOf(p) == <<p[1] \div 16, p[2] \div 16>>

\* ------------------------------------------------------------ room ids
Room1 == <<"room", "1">>
Room2 == <<"room", "2">>
Room3 == <<"room", "3">>
Room4 == <<"room", "4">>
Room5 == <<"room", "5">>
HazardRoomId == <<"hazard", "room">>
BossRoomId == <<"boss", "room">>

Levels == 1 .. 4

\* lines 3061-3068, mutated: the hazard room is not counted
TotalRooms_CombatOnly(lv) ==
    IF lv = 1 THEN 2 ELSE IF lv = 2 THEN 3 ELSE IF lv = 3 THEN 4 ELSE 5

\* MultiRoomSystem.__init__: total_rooms by level
TotalRooms(lv) ==
    IF lv = 1 THEN 3 ELSE IF lv = 2 THEN 4 ELSE IF lv = 3 THEN 5 ELSE 6

Cfg(id, conns, type) == [id |-> id, connections |-> conns, type |-> type]

\* MultiRoomSystem.generate_room_layout: room_configs by level
RoomConfigs(lv) ==
    IF lv = 1 THEN
      << Cfg(Room1, <<Room2>>, "combat"),
         Cfg(Room2, <<Room1, HazardRoomId>>, "combat"),
         Cfg(HazardRoomId, <<Room2, BossRoomId>>, "hazard"),
         Cfg(BossRoomId, <<HazardRoomId>>, "boss") >>
    ELSE IF lv = 2 THEN
      << Cfg(Room1, <<Room2>>, "combat"),
         Cfg(Room2, <<Room1, Room3>>, "combat"),
         Cfg(Room3, <<Room2, HazardRoomId>>, "combat"),
         Cfg(HazardRoomId, <<Room3, BossRoomId>>, "hazard"),
         Cfg(BossRoomId, <<HazardRoomId>>, "boss") >>
    ELSE IF lv = 3 THEN
      << Cfg(Room1, <<Room2>>, "combat"),
         Cfg(Room2, <<Room1, Room3>>, "combat"),
         Cfg(Room3, <<Room2, HazardRoomId>>, "combat"),
         Cfg(HazardRoomId, <<Room3, Room4>>, "hazard"),
         Cfg(Room4, <<HazardRoomId, BossRoomId>>, "combat"),
         Cfg(BossRoomId, <<Room4>>, "boss") >>
    ELSE
      << Cfg(Room1, <<Room2>>, "combat"),
         Cfg(Room2, <<Room1, Room3>>, "combat"),
         Cfg(Room3, <<Room2, HazardRoomId>>, "combat"),
         Cfg(HazardRoomId, <<Room3, Room4>>, "hazard"),
         Cfg(Room4, <<HazardRoomId, Room5>>, "combat"),
         Cfg(Room5, <<Room4, BossRoomId>>, "combat"),
         Cfg(BossRoomId, <<Room5>>, "boss") >>

RoomIds(lv) == {c.id : c \in Range(RoomConfigs(lv))}
ConfigOf(lv, id) == CHOOSE c \in Range(RoomConfigs(lv)) : c.id = id
CombatIds(lv) == {c.id : c \in {x \in Range(RoomConfigs(lv)) : x.type = "combat"}}

\* MultiRoomSystem.generate_doors: the keys of door_positions, in dict order
DoorPairs(lv) ==
    IF lv = 1 THEN
      << <<Room1, Room2>>, <<Room2, HazardRoomId>>, <<HazardRoomId, BossRoomId>> >>
    ELSE IF lv = 2 THEN
      << <<Room1, Room2>>, <<Room2, Room3>>, <<Room3, HazardRoomId>>,
         <<HazardRoomId, BossRoomId>> >>
    ELSE IF lv = 3 THEN
      << <<Room1, Room2>>, <<Room2, Room3>>, <<Room3, HazardRoomId>>,
         <<HazardRoomId, Room4>>, <<Room4, BossRoomId>> >>
    ELSE
      << <<Room1, Room2>>, <<Room2, Room3>>, <<Room3, HazardRoomId>>,
         <<HazardRoomId, Room4>>, <<Room4, Room5>>, <<Room5, BossRoomId>> >>

\* door_id = f"{room1}_{room2}"
DoorId(pair) == pair[1] \o pair[2]

\* self.doors in insertion order
DoorOrder(lv) == [i \in DOMAIN DoorPairs(lv) |-> DoorId(DoorPairs(lv)[i])]


\* ------------------------------------------------------------ Door
\* open_progress == 1.0, in tenths
ProgressFull == 10
\* Door.open_speed, per second
OpenSpeed == 3
\* ticks per second: dt is clamped to 1/30 s
TicksPerSecond == 30

\* Door.__init__
NewDoor(x, y, direction) ==
    [x |-> x, y |-> y, direction |-> direction,
     is_open |-> FALSE, open_progress |-> 0,
     width |-> IF direction = "horizontal" THEN 32 ELSE 16,
     height |-> IF direction = "horizontal" THEN 16 ELSE 32]

\* open_speed * dt, in tenths of progress
OpenStep(dt) == (OpenSpeed * dt * ProgressFull) \div TicksPerSecond

\* Door.update(dt, player_nearby), mutated: open_progress is not clamped
DoorUpdate_Unclamped(door, dt, player_nearby) ==
    LET target == IF player_nearby THEN ProgressFull ELSE 0
        p == IF door.open_progress < target
               THEN door.open_progress + OpenStep(dt)
             ELSE IF door.open_progress > target
               THEN door.open_progress - OpenStep(dt)
             ELSE door.open_progress
    IN [door EXCEPT !.open_progress = p, !.is_open = (2 * p > ProgressFull)]

\* Door.update(dt, player_nearby), mutated: the closing branch is missing
DoorUpdate_NoClose(door, dt, player_nearby) ==
    LET target == IF player_nearby THEN ProgressFull ELSE 0
        p == IF door.open_progress < target
               THEN Min(ProgressFull, door.open_progress + OpenStep(dt))
             ELSE door.open_progress
    IN [door EXCEPT !.open_progress = p, !.is_open = p * 2 > ProgressFull]

\* Door.update(dt, player_nearby)
DoorUpdate(door, dt, player_nearby) ==
    LET target == IF player_nearby THEN ProgressFull ELSE 0
        p == IF door.open_progress < target
               THEN Min(ProgressFull, door.open_progress + OpenStep(dt))
             ELSE IF door.open_progress > target
               THEN Max(0, door.open_progress - OpenStep(dt))
             ELSE door.open_progress
    IN [door EXCEPT !.open_progress = p, !.is_open = (2 * p > ProgressFull)]

\* Door.can_pass_through
CanPassThrough(door) == door.is_open

\* Door.get_collision_rect: <<>> for None when open, else the footprint
GetCollisionRect(door) ==
    IF door.is_open THEN <<>> ELSE <<door.x, door.y, door.width, door.height>>

\* ------------------------------------------------------------ rooms
\* Room.spawn_enemies: min_enemies for a level
MinEnemies(lv) == 5 + (Min(lv - 1, 12) \div 2)

\* Room.__init__ / HazardRoom.__init__ / BossRoom.__init__: the part of a room
\* the level controller reads.  enemies is len(room.enemies); the constructor's
\* placements succeed and the list is kept up to MaxSpawn.
NewRoom(kind, lv) ==
    [kind |-> kind,
     width |-> IF kind = "boss" THEN 30 ELSE 25,
     height |-> IF kind = "boss" THEN 25 ELSE 20,
     enemies |-> Min(MinEnemies(lv), MaxSpawn),
     cleared |-> FALSE,
     challenge_complete |-> FALSE]

\* Room.update, lines 736-737: the cleared flag
RoomUpdate(room) ==
    IF ~room.cleared /\ room.enemies = 0 THEN [room EXCEPT !.cleared = TRUE] ELSE room

\* HazardRoom.update: Room.update, then the end-platform test
HazardRoomUpdate(room, pos) ==
    LET r1 == RoomUpdate(room)
        end_area_x == r1.width - 6
        end_area_y == r1.height - 5
        t == TileOf(pos)
    IN IF ~r1.challenge_complete /\ t[1] >= end_area_x /\ t[2] >= end_area_y
          /\ r1.enemies = 0
         THEN [r1 EXCEPT !.challenge_complete = TRUE]
         ELSE r1

\* current_room.update(dt, player), dispatched on the room's class
CurrentRoomUpdate(room, pos) ==
    IF room.kind = "hazard" THEN HazardRoomUpdate(room, pos) ELSE RoomUpdate(room)

\* ------------------------------------------------------------ waves
\* MultiRoomSystem.generate_enemy_waves
GenerateEnemyWaves(lv) ==
    [w \in 1 .. 2 |->
        [enemy_count |-> (3 + lv) + (w - 1) * 2, spawned |-> FALSE, cleared |-> FALSE]]

\* MultiRoomSystem.spawn_enemy_wave: the enemies placed when `placed` of the
\* enemy_count placement loops find a tile
SpawnEnemyWave(enemies, wave, placed) == enemies + Min(placed, wave.enemy_count)

\* line 3249, mutated: the index skips a wave
NextWaveIndex_Skip(idx) == idx + 2

\* handle_enemy_waves, line 3249: self.current_wave[room] += 1
NextWaveIndex(idx) == idx + 1

\* line 3251, mutated: the room counts as cleared one wave early
AllWavesCleared_Early(idx, room_waves) == idx >= Len(room_waves) - 1

\* handle_enemy_waves, line 3251: current_wave[room] >= len(room_waves)
AllWavesCleared(idx, room_waves) == idx >= Len(room_waves)

\* line 3253, mutated: the set is replaced instead of extended
AddCleared_Replace(cleared_set, id) == {id}

\* handle_enemy_waves, line 3253 (and update, line 3218): rooms_cleared.add(id)
AddCleared(cleared_set, id) == cleared_set \cup {id}

\* MultiRoomSystem.handle_enemy_waves for room `id`; returns what it changes
HandleEnemyWaves(id, room_waves, idx, enemies, cleared_set, placed) ==
    IF idx < Len(room_waves) THEN
      LET wave == room_waves[idx + 1]
          doSpawn == ~wave.spawned /\ enemies = 0
          enemies1 == IF doSpawn THEN SpawnEnemyWave(enemies, wave, placed) ELSE enemies
          wave1 == IF doSpawn THEN [wave EXCEPT !.spawned = TRUE] ELSE wave
          doClear == wave1.spawned /\ enemies1 = 0 /\ ~wave1.cleared
          wave2 == IF doClear THEN [wave1 EXCEPT !.cleared = TRUE] ELSE wave1
          idx2 == IF doClear THEN NextWaveIndex(idx) ELSE idx
      IN [waves |-> [room_waves EXCEPT ![idx + 1] = wave2],
          idx |-> idx2,
          enemies |-> enemies1,
          cleared_set |-> IF doClear /\ AllWavesCleared(idx2, room_waves)
                            THEN AddCleared(cleared_set, id) ELSE cleared_set]
    ELSE [waves |-> room_waves, idx |-> idx, enemies |-> enemies,
          cleared_set |-> cleared_set]

\* ------------------------------------------------------------ transitions
\* check_room_transitions, lines 3295-3300: the target room of a door id.
\* door_id.split('_', 1) cuts at the first "_": room1 is the first word only.
TargetRoom(door_id, cur) ==
    LET room1 == <<Head(door_id)>>
        rest == Tail(door_id)
        room2 == IF rest # <<>> /\ Head(rest) = "room"
                   THEN <<"room">> \o Tail(rest)
                   ELSE rest
    IN IF cur = room1 THEN room2 ELSE room1

\* transition_to_room: the player's entry point in the target room
EntryPoint(target) ==
    IF target = BossRoomId THEN <<240, 320>>
    ELSE IF target = HazardRoomId THEN <<64, 48>>
    ELSE <<200, 200>>

\* MultiRoomSystem.transition_to_room on (current_room_id, player.pos)
TransitionResult(target, cur, pos) ==
    IF target # cur THEN [cur |-> target, pos |-> EntryPoint(target)]
    ELSE [cur |-> cur, pos |-> pos]

\* the centre of a door's rectangle, line 3290-3291
DoorCentre(door) == <<door.x + door.width \div 2, door.y + door.height \div 2>>

\* the same iteration, mutated: the target is not looked up in self.rooms
CheckOneDoor_Unchecked(door_id, door, st, ids) ==
    IF CanPassThrough(door) /\ GetCollisionRect(door) = <<>>
       /\ Dist2(DoorCentre(door), st.pos) < 20 * 20
      THEN TransitionResult(TargetRoom(door_id, st.cur), st.cur, st.pos)
      ELSE st

\* one iteration of the loop of check_room_transitions
CheckOneDoor(door_id, door, st, ids) ==
    IF CanPassThrough(door) /\ GetCollisionRect(door) = <<>>
       /\ Dist2(DoorCentre(door), st.pos) < 20 * 20
      THEN LET target == TargetRoom(door_id, st.cur)
           IN IF target \in ids THEN TransitionResult(target, st.cur, st.pos) ELSE st
      ELSE st

\* MultiRoomSystem.check_room_transitions: the loop over self.doors.items()
RECURSIVE CheckRoomTransitions(_, _, _, _, _)
CheckRoomTransitions(order, i, ds, st, ids) ==
    IF i > Len(order) THEN st
    ELSE CheckRoomTransitions(order, i + 1, ds,
                              CheckOneDoor(order[i], ds[order[i]], st, ids), ids)

\* lines 3228-3229, mutated: the flag is recomputed in every update
TeleporterAfter_Recomputed(cleared_set, total, active) ==
    Cardinality(cleared_set) >= total

\* MultiRoomSystem.update, lines 3227-3230: teleporter activation
TeleporterAfter(cleared_set, total, active) ==
    IF Cardinality(cleared_set) >= total /\ ~active THEN TRUE ELSE active

\* ------------------------------------------------------------ the level controller
\* the tick lengths update is called with, in ticks of 1/30 s
Dts == {1}

\* positions the player is moved to between updates: mid-room, in the doorway
\* (within 20 of the door's centre (400, 168)), on the hazard room's end platform
Points == {<<200, 200>>, <<390, 165>>, <<320, 250>>}

\* Player.__init__, lines 144-171: the fields that damage, dodging, the shop
\* and a level advance read or write; times are in microseconds
NewPlayer ==
    [health |-> 100, max_health |-> 100, armor |-> 0,
     is_dodging |-> FALSE, dodge_timer |-> 0, dodge_cooldown_timer |-> 0,
     invulnerable |-> FALSE, damage_flash_timer |-> 0]

\* the player and the session's progress are left alone
PlayerIdle ==
    /\ player = NewPlayer
    /\ game_over = FALSE
    /\ current_level = 1
    /\ level_complete_timer = -1
    /\ combat_health = -1

\* no HazardRoom is followed tile by tile
HazardIdle ==
    /\ hazard_room = <<>>
    /\ rolls = <<>>

\* no enemy's firing is followed
FireIdle ==
    /\ fire_enemy = <<>>
    /\ fire_shots = 0
    /\ fire_gap = 0

\* no placement routine is followed draw by draw
PlaceIdle == placing = <<>>

\* the projectiles of the rooms of the level are not followed
FrameIdle == room_bullets = <<>>

\* no shop is followed key by key
ShopIdle ==
    /\ shop = <<>>
    /\ keys = <<>>
    /\ money = 0
    /\ guns = <<>>
    /\ current_gun = 0
    /\ last_key = ""

\* no enemy is followed through its timers
AdvIdle == adv_enemies = <<>> /\ adv_ticks = 0

\* no enemy is followed tick by tick
SightIdle == fire_tick = <<>>

\* no combat tick is followed source by source
TickIdle == last_tick = <<>>

\* the time between the player's dodge rolls is not followed
DodgeIdle == dodge_gap = <<>> /\ dodge_starts = 0

\* no room is followed position by position
GeoIdle ==
    /\ walls = {}
    /\ enemy_pos = <<>>
    /\ room_ticks = 0
    /\ FireIdle
    /\ PlaceIdle
    /\ FrameIdle
    /\ ShopIdle
    /\ AdvIdle
    /\ SightIdle
    /\ TickIdle
    /\ DodgeIdle

\* no room object is followed enemy by enemy in Spec
RoomIdle ==
    /\ room_class = "none"
    /\ room_enemies = <<>>
    /\ player_bullets = <<>>
    /\ enemy_bullets = 0
    /\ room_cleared = FALSE
    /\ boss = <<>>
    /\ boss_spawned = FALSE
    /\ enemies_killed = 0
    /\ room_time = 0
    /\ special_attacks = 0
    /\ burst_bullets = 0

\* SpawnRoom.generate_spawn_room, lines 1149-1158: the door in the bottom wall
SpawnDoor == NewDoor((15 \div 2 - 1) * 16, (12 - 1) * 16, "horizontal")

\* the session is in the dungeon and its spawn room is left alone
SessionIdle ==
    /\ in_spawn_room = FALSE
    /\ spawn_door = SpawnDoor

\* MultiRoomSystem.__init__ with generate_room_layout and generate_doors
Init ==
    /\ RoomIdle
    /\ SessionIdle
    /\ PlayerIdle
    /\ HazardIdle
    /\ GeoIdle
    /\ level \in Levels
    /\ rooms = [id \in RoomIds(level) |-> NewRoom(ConfigOf(level, id).type, level)]
    /\ current_room_id = Room1
    /\ doors = [d \in Range(DoorOrder(level)) |-> NewDoor(24 * 16, 10 * 16, "horizontal")]
    /\ rooms_cleared = {}
    /\ total_rooms = TotalRooms(level)
    /\ teleporter_active = FALSE
    /\ enemy_waves = [id \in CombatIds(level) |-> GenerateEnemyWaves(level)]
    /\ current_wave = [id \in CombatIds(level) |-> 0]
    /\ player_pos = <<200, 200>>

\* MultiRoomSystem.update(dt, player)
Update ==
    \E dt \in Dts, placed \in 0 .. MaxSpawn :
      LET cur == current_room_id
          room1 == CurrentRoomUpdate(rooms[cur], player_pos)
          doors1 == [d \in DOMAIN doors |->
                       DoorUpdate(doors[d], dt,
                                  Dist2(<<doors[d].x, doors[d].y>>, player_pos) < 50 * 50)]
          isHazard == room1.kind = "hazard"
          doWaves == ~isHazard /\ cur # BossRoomId
          hw == IF doWaves /\ cur \in DOMAIN enemy_waves
                  THEN HandleEnemyWaves(cur, enemy_waves[cur], current_wave[cur],
                                        room1.enemies, rooms_cleared, placed)
                  ELSE [waves |-> <<>>, idx |-> 0, enemies |-> room1.enemies,
                        cleared_set |-> rooms_cleared]
          cleared1 == IF isHazard
                        THEN (IF room1.challenge_complete /\ cur \notin rooms_cleared
                                THEN AddCleared(rooms_cleared, cur) ELSE rooms_cleared)
                        ELSE hw.cleared_set
          st == CheckRoomTransitions(DoorOrder(level), 1, doors1,
                                     [cur |-> cur, pos |-> player_pos], DOMAIN rooms)
      IN /\ rooms' = [rooms EXCEPT ![cur] = [room1 EXCEPT !.enemies = hw.enemies]]
         /\ doors' = doors1
         /\ enemy_waves' = IF doWaves /\ cur \in DOMAIN enemy_waves
                             THEN [enemy_waves EXCEPT ![cur] = hw.waves] ELSE enemy_waves
         /\ current_wave' = IF doWaves /\ cur \in DOMAIN enemy_waves
                              THEN [current_wave EXCEPT ![cur] = hw.idx] ELSE current_wave
         /\ rooms_cleared' = cleared1
         /\ current_room_id' = st.cur
         /\ player_pos' = st.pos
         /\ teleporter_active' = TeleporterAfter(cleared1, total_rooms, teleporter_active)
         /\ UNCHANGED <<level, total_rooms, roomVars, sessionVars, restVars>>

\* Room.check_collisions on the active room, lines 741-751: player bullets
\* bring some of the room's enemies to health 0, and those leave the list
CheckCollisions ==
    /\ rooms[current_room_id].enemies > 0
    /\ \E left \in 0 .. rooms[current_room_id].enemies - 1 :
         rooms' = [rooms EXCEPT ![current_room_id].enemies = left]
    /\ UNCHANGED <<level, current_room_id, doors, rooms_cleared, total_rooms,
                   teleporter_active, enemy_waves, current_wave, player_pos,
                   roomVars, sessionVars, restVars>>

\* Player.update between two updates of the level: the player is somewhere else
MovePlayer ==
    /\ \E p \in Points : p # player_pos /\ player_pos' = p
    /\ UNCHANGED <<level, rooms, current_room_id, doors, rooms_cleared, total_rooms,
                   teleporter_active, enemy_waves, current_wave, roomVars, sessionVars,
                   restVars>>

\* MultiRoomSystem.transition_to_room(target_room_id, player)
TransitionToRoom ==
    /\ \E target \in DOMAIN rooms :
         LET r == TransitionResult(target, current_room_id, player_pos)
         IN /\ target # current_room_id
            /\ current_room_id' = r.cur
            /\ player_pos' = r.pos
    /\ UNCHANGED <<level, rooms, doors, rooms_cleared, total_rooms,
                   teleporter_active, enemy_waves, current_wave, roomVars, sessionVars,
                   restVars>>

\* A room as its constructor left it, or with nothing left to do in it
Settled(id) ==
    \/ rooms[id].kind = "boss"
    \/ id \in rooms_cleared
    \/ /\ rooms[id] = NewRoom(rooms[id].kind, level)
       /\ id \in DOMAIN enemy_waves =>
            enemy_waves[id] = GenerateEnemyWaves(level) /\ current_wave[id] = 0

\* The caller of transition_to_room moves on from a room it has not started or
\* has finished: rooms other than the active one do not change, so the rooms
\* left half-played would only multiply the states.
Next ==
    \/ Update
    \/ CheckCollisions
    \/ MovePlayer
    \/ (Settled(current_room_id) /\ TransitionToRoom)

Spec == Init /\ [][Next]_vars

\* Scenario 6 of the specification: a level with total_rooms = 3 in which,
\* hypothetically, a room id is taken out of rooms_cleared between updates.
RemoveCleared ==
    /\ \E id \in rooms_cleared : rooms_cleared' = rooms_cleared \ {id}
    /\ UNCHANGED <<level, rooms, current_room_id, doors, total_rooms,
                   teleporter_active, enemy_waves, current_wave, player_pos,
                   roomVars, sessionVars, restVars>>

InitScenario6 == Init /\ level = 1

NextScenario6 == Next \/ RemoveCleared

SpecScenario6 == InitScenario6 /\ [][NextScenario6]_vars


\* ------------------------------------------------------------ one room, enemy by enemy
\* Time in this component is counted in microseconds; health and damage are
\* the integers of the code.  Where a bullet is and what it touches is an
\* input of the operation: positions of bullets and enemies are not followed.

\* the frame length Room.update is called with: 1/30 s, the largest dt the
\* game loop passes on (line 2934), rounded down to the microsecond
RoomDts == {33333}

\* the levels the room is constructed for
RoomLevels == {1}

\* At most MaxPlayerBullets player bullets are in flight in the model.
MaxPlayerBullets == 1

\* At most MaxEnemyBullets enemy bullets are in flight in the model.
MaxEnemyBullets == 8

\* Room.update is followed up to the MaxAttacks-th special attack of the Boss.
MaxAttacks == 2

\* Player.__init__, line 167: the damage of a Shotgun pellet, the bullet fired
BulletDamages == {12}

\* Enemy.__init__, lines 320-321 and 361-363: health 30 scaled by 15% a level
EnemyHealth(lv) == Max(1, (30 * (100 + 15 * (lv - 1))) \div 100)

NewEnemy(lv) ==
    [cls |-> "Enemy", health |-> EnemyHealth(lv), max_health |-> EnemyHealth(lv),
     special_attack_timer |-> 0]

\* Boss.__init__, lines 3593-3607
NewBoss(lv) ==
    [cls |-> "Boss", health |-> 200 + lv * 50, max_health |-> 200 + lv * 50,
     special_attack_timer |-> 0]

\* Boss.special_attack_cooldown, 5.0 s
SpecialAttackCooldown == 5000000

\* Boss.special_attack: the number of bullets it returns
SpecialAttack == 8

\* lines 523-524, mutated: an enemy at health 0 is not reported dead
EnemyTakeDamage_Strict(e, amount) ==
    [enemy |-> [e EXCEPT !.health = Max(0, e.health - amount)],
     dead |-> Max(0, e.health - amount) < 0]

\* Enemy.take_damage: the enemy afterwards and the value returned
EnemyTakeDamage(e, amount) ==
    [enemy |-> [e EXCEPT !.health = Max(0, e.health - amount)],
     dead |-> Max(0, e.health - amount) <= 0]

\* Boss.update: the Boss afterwards and the number of bullets returned
BossUpdate(e, dt) ==
    LET t == e.special_attack_timer + dt
    IN IF t >= SpecialAttackCooldown
         THEN [enemy |-> [e EXCEPT !.special_attack_timer = 0], bullets |-> SpecialAttack]
         ELSE [enemy |-> [e EXCEPT !.special_attack_timer = t], bullets |-> 0]

\* Room.update, lines 701-713, for one enemy: line 702 updates it and drops
\* what the call returns; for a Boss line 710 updates it once more and line
\* 711-713 keeps what that second call returns
UpdateEnemy(e, dt) ==
    IF e.cls = "Boss"
      THEN LET first == BossUpdate(e, dt)
               second == BossUpdate(first.enemy, dt)
           IN [enemy |-> second.enemy,
               kept |-> second.bullets,
               attacks |-> (IF first.bullets > 0 THEN 1 ELSE 0)
                           + (IF second.bullets > 0 THEN 1 ELSE 0)]
      ELSE [enemy |-> e, kept |-> 0, attacks |-> 0]

\* Room.update, the loop of lines 701-713 over the enemies from index i on
RECURSIVE UpdateEnemies(_, _, _)
UpdateEnemies(es, i, dt) ==
    IF i > Len(es) THEN [enemies |-> <<>>, kept |-> 0, attacks |-> 0]
    ELSE LET r == UpdateEnemy(es[i], dt)
             rest == UpdateEnemies(es, i + 1, dt)
         IN [enemies |-> <<r.enemy>> \o rest.enemies,
             kept |-> r.kept + rest.kept,
             attacks |-> r.attacks + rest.attacks]

\* the elements of seq at the indices in keep, in order
RECURSIVE Pick(_, _, _)
Pick(seq, keep, i) ==
    IF i > Len(seq) THEN <<>>
    ELSE (IF i \in keep THEN <<seq[i]>> ELSE <<>>) \o Pick(seq, keep, i + 1)

HasBoss(es) == \E i \in 1 .. Len(es) : es[i].cls = "Boss"

\* BossRoom.boss and the Boss in the list are one object
BossRef(b, es) ==
    IF b # <<>> /\ HasBoss(es)
      THEN <<es[CHOOSE i \in 1 .. Len(es) : es[i].cls = "Boss"]>>
      ELSE b

\* Room.check_collisions, lines 742-751, mutated: the loop over the enemies
\* does not break after the first hit
Victims_NoBreak(touched) == touched

\* Room.check_collisions, lines 742-751: of the enemies a bullet touches, the
\* ones it damages; the loop over the list breaks at the first of them
Victims(touched) ==
    IF touched = {} THEN {} ELSE {CHOOSE i \in touched : \A j \in touched : i <= j}

\* lines 744-748 for the enemies at the indices vs, from index i on: the list
\* afterwards, the number of enemies removed and the Boss if it was damaged
RECURSIVE DamageEnemies(_, _, _, _)
DamageEnemies(es, vs, amount, i) ==
    IF i > Len(es) THEN [enemies |-> <<>>, killed |-> 0, boss |-> <<>>]
    ELSE LET rest == DamageEnemies(es, vs, amount, i + 1)
             r == EnemyTakeDamage(es[i], amount)
         IN IF i \notin vs
              THEN [rest EXCEPT !.enemies = <<es[i]>> \o @]
              ELSE [enemies |-> IF r.dead THEN rest.enemies ELSE <<r.enemy>> \o rest.enemies,
                    killed |-> rest.killed + (IF r.dead THEN 1 ELSE 0),
                    boss |-> IF r.enemy.cls = "Boss" THEN <<r.enemy>> ELSE rest.boss]

\* Room.check_collisions, lines 741-751, from bullet k on: touched[k] is the
\* set of the enemies of the list, as the k-th bullet finds it, that the
\* bullet touches
RECURSIVE BulletsVsEnemies(_, _, _, _)
BulletsVsEnemies(bullets, k, touched, acc) ==
    IF k > Len(bullets) THEN acc
    ELSE LET vs == Victims(touched[k] \cap (1 .. Len(acc.enemies)))
             r == DamageEnemies(acc.enemies, vs, bullets[k], 1)
         IN IF vs = {}
              THEN BulletsVsEnemies(bullets, k + 1, touched,
                                    [acc EXCEPT !.bullets = @ \o <<bullets[k]>>])
              ELSE BulletsVsEnemies(bullets, k + 1, touched,
                        [enemies |-> r.enemies,
                         bullets |-> acc.bullets,
                         killed |-> acc.killed + r.killed,
                         boss |-> IF r.boss # <<>> /\ acc.boss # <<>>
                                    THEN r.boss ELSE acc.boss])

\* the level controller stands idle in SpecRoom
CtlIdle ==
    /\ rooms = <<>>
    /\ current_room_id = <<>>
    /\ doors = <<>>
    /\ rooms_cleared = {}
    /\ total_rooms = 0
    /\ teleporter_active = FALSE
    /\ enemy_waves = <<>>
    /\ current_wave = <<>>
    /\ player_pos = <<0, 0>>

\* Room.__init__ (lines 610-621, spawn_enemies 656-698) and BossRoom.__init__
InitRoom ==
    /\ CtlIdle
    /\ SessionIdle
    /\ PlayerIdle
    /\ HazardIdle
    /\ GeoIdle
    /\ level \in RoomLevels
    /\ room_class \in {"Room", "BossRoom"}
    /\ room_enemies = [i \in 1 .. Min(MinEnemies(level), MaxSpawn) |-> NewEnemy(level)]
    /\ player_bullets = <<>>
    /\ enemy_bullets = 0
    /\ room_cleared = FALSE
    /\ boss = <<>>
    /\ boss_spawned = FALSE
    /\ enemies_killed = 0
    /\ room_time = 0
    /\ special_attacks = 0
    /\ burst_bullets = 0

\* Room.update(dt, player); shots is the number of enemies whose
\* fire_at_player returns a bullet, kept_p and gone_e say which bullets'
\* Bullet.update returns False
Room_update ==
    /\ special_attacks < MaxAttacks
    /\ \E dt \in RoomDts, shots \in 0 .. Len(room_enemies),
          kept_p \in SUBSET (1 .. Len(player_bullets)) :
         LET r == UpdateEnemies(room_enemies, 1, dt)
             fired == enemy_bullets + shots + r.kept
         IN \E gone_e \in 0 .. fired :
              /\ fired - gone_e <= MaxEnemyBullets
              /\ room_enemies' = r.enemies
              /\ boss' = BossRef(boss, r.enemies)
              /\ player_bullets' = Pick(player_bullets, kept_p, 1)
              /\ enemy_bullets' = fired - gone_e
              /\ room_cleared' = (room_cleared \/ Len(room_enemies) = 0)
              /\ room_time' = IF HasBoss(room_enemies) THEN room_time + dt ELSE room_time
              /\ special_attacks' = special_attacks + r.attacks
              /\ burst_bullets' = burst_bullets + r.kept
    /\ UNCHANGED <<ctlVars, sessionVars, restVars, room_class, boss_spawned, enemies_killed>>

\* Room.check_collisions(player, game_instance): touched says which enemies
\* each player bullet touches, gone_e how many enemy bullets touch the player
\* or a wall, kept_p which player bullets are not in a wall
Room_check_collisions ==
    /\ \E touched \in [1 .. Len(player_bullets) -> SUBSET (1 .. Len(room_enemies))],
          gone_e \in 0 .. enemy_bullets :
         LET r == BulletsVsEnemies(player_bullets, 1, touched,
                    [enemies |-> room_enemies, bullets |-> <<>>, killed |-> 0,
                     boss |-> boss])
         IN \E kept_p \in SUBSET (1 .. Len(r.bullets)) :
              /\ room_enemies' = r.enemies
              /\ boss' = r.boss
              /\ enemies_killed' = enemies_killed + r.killed
              /\ player_bullets' = Pick(r.bullets, kept_p, 1)
              /\ enemy_bullets' = enemy_bullets - gone_e
    /\ UNCHANGED <<ctlVars, sessionVars, restVars, room_class, room_cleared, boss_spawned,
                   room_time,
                   special_attacks, burst_bullets>>

\* Room.add_player_bullet(bullet), as GungeonGame.update calls it (line 2387)
Room_add_player_bullet ==
    /\ Len(player_bullets) < MaxPlayerBullets
    /\ \E d \in BulletDamages : player_bullets' = Append(player_bullets, d)
    /\ UNCHANGED <<ctlVars, sessionVars, restVars, room_class, room_enemies, enemy_bullets,
                   room_cleared,
                   boss, boss_spawned, enemies_killed, room_time, special_attacks,
                   burst_bullets>>

\* BossRoom.spawn_boss(): what it leaves in enemies, boss and boss_spawned
SpawnBoss(es, b, spawned, lv) ==
    IF ~spawned
      THEN [enemies |-> <<NewBoss(lv)>>, boss |-> <<NewBoss(lv)>>, boss_spawned |-> TRUE]
      ELSE [enemies |-> es, boss |-> b, boss_spawned |-> spawned]

\* BossRoom.spawn_boss() called on the room
BossRoom_spawn_boss ==
    /\ room_class = "BossRoom"
    /\ LET r == SpawnBoss(room_enemies, boss, boss_spawned, level)
       IN /\ room_enemies' = r.enemies
          /\ boss' = r.boss
          /\ boss_spawned' = r.boss_spawned
    /\ UNCHANGED <<ctlVars, sessionVars, restVars, room_class, player_bullets,
                   enemy_bullets, room_cleared,
                   enemies_killed, room_time, special_attacks, burst_bullets>>

NextRoom ==
    \/ Room_update
    \/ Room_check_collisions
    \/ Room_add_player_bullet
    \/ BossRoom_spawn_boss

SpecRoom == InitRoom /\ [][NextRoom]_vars

\* ------------------------------------------------------------ a volley
\* A plain Room with MaxVolley enemies close enough together for one bullet
\* to touch several of them (SpecVolley).
MaxVolley == 2

\* Room.__init__, lines 610-621, with spawn_enemies, lines 656-698
InitVolley ==
    /\ CtlIdle
    /\ SessionIdle
    /\ PlayerIdle
    /\ HazardIdle
    /\ GeoIdle
    /\ level \in RoomLevels
    /\ room_class = "Room"
    /\ room_enemies = [i \in 1 .. Min(MinEnemies(level), MaxVolley) |-> NewEnemy(level)]
    /\ player_bullets = <<>>
    /\ enemy_bullets = 0
    /\ room_cleared = FALSE
    /\ boss = <<>>
    /\ boss_spawned = FALSE
    /\ enemies_killed = 0
    /\ room_time = 0
    /\ special_attacks = 0
    /\ burst_bullets = 0

NextVolley ==
    \/ Room_update
    \/ Room_check_collisions
    \/ Room_add_player_bullet

SpecVolley == InitVolley /\ [][NextVolley]_vars

\* ------------------------------------------------------------ the player
\* The Player object under the operations that read or write its health,
\* armor and invulnerability (SpecPlayer).  What touches the player in a call
\* is an input of the call: the enemy bullets and the enemies in contact for
\* Room.check_collisions, the tile under the player for check_hazard_damage.
\* player.money is not followed: whether it covers a price is an input.
DamageFlash == 600000
DodgeDuration == 400000
DodgeCooldown == 1000000
MaxLevel == 10
SpikeDamage == 20
LavaDamage == 15
LevelRestore == 30

\* the damage of the bullet of a level-1 sniper and the contact damage of a
\* level-1 rusher (Enemy.__init__, lines 347-355)
EnemyBulletDamages == {15}
ContactDamages == {20}

\* at most MaxHits enemy bullets and MaxContacts enemies touch the player in
\* one call; armor and max_health are bought up to MaxArmor and MaxMaxHealth
MaxHits == 2
MaxContacts == 1
MaxArmor == 1
MaxMaxHealth == 120

\* the sequences of at most n elements of set S
SeqsUpTo(S, n) == UNION {[1 .. k -> S] : k \in 0 .. n}

\* Player.update, mutated: the end of the damage flash ends the
\* invulnerability of a dodging player too
PlayerUpdate_FlashEnds(p, dt) ==
    LET cd == Max(0, p.dodge_cooldown_timer - dt)
        fl == Max(0, p.damage_flash_timer - dt)
        inv == IF fl <= 0 /\ p.invulnerable THEN FALSE ELSE p.invulnerable
        t == p.dodge_timer + dt
    IN IF p.is_dodging
         THEN IF t >= DodgeDuration
                THEN [p EXCEPT !.dodge_cooldown_timer = cd, !.damage_flash_timer = fl,
                               !.is_dodging = FALSE, !.invulnerable = FALSE,
                               !.dodge_timer = 0]
                ELSE [p EXCEPT !.dodge_cooldown_timer = cd, !.damage_flash_timer = fl,
                               !.invulnerable = inv, !.dodge_timer = t]
         ELSE [p EXCEPT !.dodge_cooldown_timer = cd, !.damage_flash_timer = fl,
                        !.invulnerable = inv]

\* Player.update, lines 174-186: the timers and the two flags
PlayerUpdate(p, dt) ==
    LET cd == Max(0, p.dodge_cooldown_timer - dt)
        fl == Max(0, p.damage_flash_timer - dt)
        inv == IF fl <= 0 /\ p.invulnerable /\ ~p.is_dodging THEN FALSE ELSE p.invulnerable
        t == p.dodge_timer + dt
    IN IF p.is_dodging
         THEN IF t >= DodgeDuration
                THEN [p EXCEPT !.dodge_cooldown_timer = cd, !.damage_flash_timer = fl,
                               !.is_dodging = FALSE, !.invulnerable = FALSE,
                               !.dodge_timer = 0]
                ELSE [p EXCEPT !.dodge_cooldown_timer = cd, !.damage_flash_timer = fl,
                               !.invulnerable = inv, !.dodge_timer = t]
         ELSE [p EXCEPT !.dodge_cooldown_timer = cd, !.damage_flash_timer = fl,
                        !.invulnerable = inv]

\* Player.dodge_roll, mutated: the cooldown is not looked at
DodgeRoll_NoCooldown(p) ==
    IF ~p.is_dodging
      THEN [p EXCEPT !.is_dodging = TRUE, !.invulnerable = TRUE, !.dodge_timer = 0,
                     !.dodge_cooldown_timer = DodgeCooldown]
      ELSE p

\* Player.dodge_roll, lines 215-220
DodgeRoll(p) ==
    IF ~p.is_dodging /\ p.dodge_cooldown_timer <= 0
      THEN [p EXCEPT !.is_dodging = TRUE, !.invulnerable = TRUE, !.dodge_timer = 0,
                     !.dodge_cooldown_timer = DodgeCooldown]
      ELSE p

\* Player.take_damage, mutated: the invulnerable flag is not looked at
TakeDamage_Unguarded(p, amount) ==
    IF p.armor > 0
      THEN [p EXCEPT !.armor = @ - 1, !.invulnerable = TRUE,
                     !.damage_flash_timer = DamageFlash]
      ELSE [p EXCEPT !.health = Max(0, @ - amount), !.invulnerable = TRUE,
                     !.damage_flash_timer = DamageFlash]

\* Player.take_damage, mutated: a hit leaves the player vulnerable
TakeDamage_NoGrace(p, amount) ==
    IF ~p.invulnerable
      THEN IF p.armor > 0
             THEN [p EXCEPT !.armor = @ - 1, !.damage_flash_timer = DamageFlash]
             ELSE [p EXCEPT !.health = Max(0, @ - amount),
                            !.damage_flash_timer = DamageFlash]
      ELSE p

\* Player.take_damage, lines 234-247
TakeDamage(p, amount) ==
    IF ~p.invulnerable
      THEN IF p.armor > 0
             THEN [p EXCEPT !.armor = @ - 1, !.invulnerable = TRUE,
                            !.damage_flash_timer = DamageFlash]
             ELSE [p EXCEPT !.health = Max(0, @ - amount), !.invulnerable = TRUE,
                            !.damage_flash_timer = DamageFlash]
      ELSE p

\* take_damage called with the amounts of ds from index i on, in order
RECURSIVE TakeDamages(_, _, _)
TakeDamages(p, ds, i) ==
    IF i > Len(ds) THEN p ELSE TakeDamages(TakeDamage(p, ds[i]), ds, i + 1)

\* Room.check_collisions, lines 753-784, for the player: shots are the
\* damages of the enemy bullets that touch the player, contacts the damages
\* that deal_contact_damage returns for the enemies in contact
HitsOnPlayer(p, shots, contacts) ==
    LET q == TakeDamages(p, shots, 1)
    IN IF ~q.invulnerable THEN TakeDamages(q, contacts, 1) ELSE q

\* HazardRoom.check_hazard_damage, lines 3492-3519: kinds says in which of
\* ditches, spikes and lava_tiles the player's tile is
CheckHazardDamage(p, kinds) ==
    IF p.invulnerable \/ p.is_dodging THEN p
    ELSE IF "ditch" \in kinds THEN [p EXCEPT !.health = 0]
    ELSE IF "spike" \in kinds THEN TakeDamage(p, SpikeDamage)
    ELSE IF "lava" \in kinds THEN TakeDamage(p, LavaDamage)
    ELSE p

\* Shop.apply_item_effect, mutated: the medkit adds its value unclamped
ApplyItemEffect_Unclamped(p, type) ==
    IF type = "health" THEN [p EXCEPT !.health = @ + 30]
    ELSE IF type = "armor" THEN [p EXCEPT !.armor = @ + 1]
    ELSE IF type = "max_health" THEN [p EXCEPT !.max_health = @ + 20, !.health = @ + 20]
    ELSE p

\* Shop.apply_item_effect, lines 1053-1069; the other items change the guns
\* and the speed
ApplyItemEffect(p, type) ==
    IF type = "health" THEN [p EXCEPT !.health = Min(p.max_health, @ + 30)]
    ELSE IF type = "armor" THEN [p EXCEPT !.armor = @ + 1]
    ELSE IF type = "max_health" THEN [p EXCEPT !.max_health = @ + 20, !.health = @ + 20]
    ELSE p

ItemTypes == {"health", "armor", "damage", "speed", "max_health", "ammo"}

\* GungeonGame.advance_level, lines 2453-2463, for the player's health
AdvanceLevel(p, lv) ==
    IF lv < MaxLevel
      THEN [p EXCEPT !.health = @ + Min(LevelRestore, p.max_health - p.health)]
      ELSE p

\* GungeonGame.initialize_game, lines 2162-2191, on the session's last level
\* but one (the levels before it advance in the same way)
InitPlayer ==
    /\ CtlIdle
    /\ RoomIdle
    /\ SessionIdle
    /\ HazardIdle
    /\ GeoIdle
    /\ level = 1
    /\ player = NewPlayer
    /\ game_over = FALSE
    /\ current_level = MaxLevel - 1
    /\ level_complete_timer = -1
    /\ combat_health = -1

Player_update ==
    /\ \E dt \in RoomDts : player' = PlayerUpdate(player, dt)
    /\ UNCHANGED <<ctlVars, roomVars, sessionVars, hazardVars, game_over, current_level,
                   level_complete_timer, combat_health,
                   geoVars, fireVars, placeVars, frameVars, dodgeVars, tickVars, sightVars,
                   advVars, shopVars>>

Player_dodge_roll ==
    /\ player' = DodgeRoll(player)
    /\ UNCHANGED <<ctlVars, roomVars, sessionVars, hazardVars, game_over, current_level,
                   level_complete_timer, combat_health,
                   geoVars, fireVars, placeVars, frameVars, dodgeVars, tickVars, sightVars,
                   advVars, shopVars>>

\* Room.check_collisions(player, game_instance), lines 753-784
Room_check_collisions_player ==
    /\ \E shots \in SeqsUpTo(EnemyBulletDamages, MaxHits),
          contacts \in SeqsUpTo(ContactDamages, MaxContacts) :
         player' = HitsOnPlayer(player, shots, contacts)
    /\ UNCHANGED <<ctlVars, roomVars, sessionVars, hazardVars, game_over, current_level,
                   level_complete_timer, combat_health,
                   geoVars, fireVars, placeVars, frameVars, dodgeVars, tickVars, sightVars,
                   advVars, shopVars>>

\* HazardRoom.check_hazard_damage(player)
HazardRoom_check_hazard_damage ==
    /\ \E kinds \in {{}, {"ditch"}, {"spike"}, {"lava"}} :
         player' = CheckHazardDamage(player, kinds)
    /\ UNCHANGED <<ctlVars, roomVars, sessionVars, hazardVars, game_over, current_level,
                   level_complete_timer, combat_health,
                   geoVars, fireVars, placeVars, frameVars, dodgeVars, tickVars, sightVars,
                   advVars, shopVars>>

\* Shop.buy_item(player, item_index), lines 1044-1051, with enough money
Shop_buy_item ==
    /\ \E type \in ItemTypes :
         /\ type = "armor" => player.armor < MaxArmor
         /\ type = "max_health" => player.max_health < MaxMaxHealth
         /\ player' = ApplyItemEffect(player, type)
    /\ UNCHANGED <<ctlVars, roomVars, sessionVars, hazardVars, game_over, current_level,
                   level_complete_timer, combat_health,
                   geoVars, fireVars, placeVars, frameVars, dodgeVars, tickVars, sightVars,
                   advVars, shopVars>>

\* GungeonGame.advance_level()
GungeonGame_advance_level ==
    /\ player' = AdvanceLevel(player, current_level)
    /\ current_level' = IF current_level < MaxLevel THEN current_level + 1 ELSE current_level
    /\ UNCHANGED <<ctlVars, roomVars, sessionVars, hazardVars, game_over,
                   level_complete_timer, combat_health,
                   geoVars, fireVars, placeVars, frameVars, dodgeVars, tickVars, sightVars,
                   advVars, shopVars>>

NextPlayer ==
    \/ Player_update
    \/ Player_dodge_roll
    \/ Room_check_collisions_player
    \/ HazardRoom_check_hazard_damage
    \/ Shop_buy_item
    \/ GungeonGame_advance_level

SpecPlayer == InitPlayer /\ [][NextPlayer]_vars

\* ------------------------------------------------------------ dodge rolls
\* SpecDodge: the Player under update, dodge_roll and take_damage, with the
\* update time that has passed since the last dodge started (dodge_gap, -1
\* before the first one; it stops counting at GapLimit).  SpecDodgeFair: the
\* game loop goes on calling update.
GapLimit == 2 * DodgeCooldown
MaxDodges == 2

\* Player.__init__, lines 144-171
InitDodge ==
    /\ CtlIdle
    /\ RoomIdle
    /\ SessionIdle
    /\ HazardIdle
    /\ walls = {}
    /\ enemy_pos = <<>>
    /\ room_ticks = 0
    /\ FireIdle
    /\ PlaceIdle
    /\ FrameIdle
    /\ ShopIdle
    /\ AdvIdle
    /\ SightIdle
    /\ TickIdle
    /\ level = 1
    /\ player = NewPlayer
    /\ game_over = FALSE
    /\ current_level = 1
    /\ level_complete_timer = -1
    /\ combat_health = -1
    /\ dodge_gap = -1
    /\ dodge_starts = 0

\* player.update(dt, inputs, mouse_pos, camera)
Dodge_update ==
    /\ \E dt \in RoomDts :
         /\ player' = PlayerUpdate(player, dt)
         /\ dodge_gap' = IF dodge_gap = -1 THEN -1 ELSE Min(GapLimit, dodge_gap + dt)
    /\ UNCHANGED dodge_starts
    /\ UNCHANGED <<ctlVars, roomVars, sessionVars, hazardVars, game_over, current_level,
                   level_complete_timer, combat_health,
                   geoVars, fireVars, placeVars, frameVars, tickVars, sightVars, advVars,
                   shopVars>>

\* player.dodge_roll(), the SPACE key of handle_events (line 2247)
Dodge_dodge_roll ==
    /\ dodge_starts < MaxDodges
    /\ player' = DodgeRoll(player)
    /\ dodge_gap' = IF player'.is_dodging /\ ~player.is_dodging THEN 0 ELSE dodge_gap
    /\ dodge_starts' = IF player'.is_dodging /\ ~player.is_dodging
                         THEN dodge_starts + 1 ELSE dodge_starts
    /\ UNCHANGED <<ctlVars, roomVars, sessionVars, hazardVars, game_over, current_level,
                   level_complete_timer, combat_health,
                   geoVars, fireVars, placeVars, frameVars, tickVars, sightVars, advVars,
                   shopVars>>

\* player.take_damage(amount) for an enemy bullet
Dodge_take_damage ==
    /\ player.health > 0
    /\ \E amount \in EnemyBulletDamages : player' = TakeDamage(player, amount)
    /\ UNCHANGED <<ctlVars, roomVars, sessionVars, hazardVars, game_over, current_level,
                   level_complete_timer, combat_health,
                   geoVars, fireVars, placeVars, frameVars, dodgeVars, tickVars, sightVars,
                   advVars, shopVars>>

NextDodge ==
    \/ Dodge_update
    \/ Dodge_dodge_roll
    \/ Dodge_take_damage

SpecDodge == InitDodge /\ [][NextDodge]_vars

\* every frame of the game loop calls player.update with dt > 0
SpecDodgeFair == SpecDodge /\ WF_vars(Dodge_update)

\* ------------------------------------------------------------ the shop
\* SpecShop: the Shop of a running game (game_state GAME, a player present)
\* under the key events of handle_events, with buy_item also called directly
\* for any index, the player firing the current gun, and money coming in.
\* Of a gun the ammo is followed, of the items their type, price and value.
MaxMoney == 100

\* Shop.__init__, lines 1030-1037
Items ==
    <<[type |-> "health", price |-> 25, value |-> 30],
      [type |-> "armor", price |-> 40, value |-> 1],
      [type |-> "damage", price |-> 60, value |-> 0],
      [type |-> "speed", price |-> 35, value |-> 0],
      [type |-> "max_health", price |-> 80, value |-> 20],
      [type |-> "ammo", price |-> 15, value |-> 50]>>

\* the keys pressed
Keys == {"w", "s", "q", "TAB", "RETURN"}

\* money comes in by kills (2 to 8 each, line 746) and level-ups (20 * level)
Rewards == {5, 20}

\* Gun.fire, lines 117-122, for the ammo, the fire_timer run out
GunFire(g) == IF g.ammo > 0 THEN [g EXCEPT !.ammo = @ - 1] ELSE g

\* Shop.apply_item_effect, lines 1066-1069
RefillAmmo(gs, value) ==
    [i \in DOMAIN gs |->
        IF gs[i].ammo > 0 THEN [gs[i] EXCEPT !.ammo = Min(@ + value, 99)] ELSE gs[i]]

\* Shop.buy_item(player, item_index), lines 1044-1051: what it leaves of
\* the money, the player and the guns
BuyItem(index) ==
    IF index < Len(Items) /\ money >= Items[index + 1].price
      THEN [money |-> money - Items[index + 1].price,
            player |-> ApplyItemEffect(player, Items[index + 1].type),
            guns |-> IF Items[index + 1].type = "ammo"
                       THEN RefillAmmo(guns, Items[index + 1].value) ELSE guns,
            bought |-> TRUE]
      ELSE [money |-> money, player |-> player, guns |-> guns, bought |-> FALSE]

\* GungeonGame.initialize_game, lines 2162-2191, and Player.__init__
InitShop ==
    /\ CtlIdle
    /\ RoomIdle
    /\ SessionIdle
    /\ HazardIdle
    /\ walls = {}
    /\ enemy_pos = <<>>
    /\ room_ticks = 0
    /\ FireIdle
    /\ PlaceIdle
    /\ FrameIdle
    /\ TickIdle
    /\ AdvIdle
    /\ SightIdle
    /\ DodgeIdle
    /\ PlayerIdle
    /\ level = 1
    /\ shop = [is_open |-> FALSE, selected_item |-> 0]
    /\ keys = [up |-> FALSE, down |-> FALSE]
    /\ money = 0
    /\ guns = <<[ammo |-> -1], [ammo |-> 50]>>
    /\ current_gun = 0
    /\ last_key = ""

\* what a purchase may not exceed in the model
WithinBounds(p) == p.armor <= MaxArmor /\ p.max_health <= MaxMaxHealth

\* handle_events, lines 2224 and 2234-2261: a KEYDOWN event during the game
GungeonGame_handle_keydown ==
    /\ \E key \in Keys :
         /\ last_key' = key
         /\ IF key = "w"
              THEN /\ keys' = [keys EXCEPT !.up = TRUE]
                   /\ UNCHANGED <<shop, money, guns, current_gun, player>>
            ELSE IF key = "s"
              THEN /\ keys' = [keys EXCEPT !.down = TRUE]
                   /\ UNCHANGED <<shop, money, guns, current_gun, player>>
            ELSE IF key = "q"
              THEN /\ current_gun' = (current_gun + 1) % Len(guns)
                   /\ UNCHANGED <<shop, keys, money, guns, player>>
            ELSE IF key = "TAB" /\ shop # <<>>
              THEN /\ shop' = [shop EXCEPT !.is_open = ~@]
                   /\ UNCHANGED <<keys, money, guns, current_gun, player>>
            ELSE IF key = "RETURN" /\ shop # <<>> /\ shop.is_open
              THEN /\ WithinBounds(BuyItem(shop.selected_item).player)
                   /\ money' = BuyItem(shop.selected_item).money
                   /\ player' = BuyItem(shop.selected_item).player
                   /\ guns' = BuyItem(shop.selected_item).guns
                   /\ UNCHANGED <<shop, keys, current_gun>>
            ELSE IF shop # <<>> /\ shop.is_open
              THEN /\ shop' = [shop EXCEPT !.selected_item =
                                  IF key = "w" THEN (@ - 1) % Len(Items)
                                  ELSE IF key = "s" THEN (@ + 1) % Len(Items)
                                  ELSE @]
                   /\ UNCHANGED <<keys, money, guns, current_gun, player>>
            ELSE UNCHANGED <<shop, keys, money, guns, current_gun, player>>
    /\ UNCHANGED <<ctlVars, roomVars, sessionVars, hazardVars, game_over, current_level,
                   level_complete_timer, combat_health, geoVars, fireVars, placeVars,
                   frameVars, dodgeVars, tickVars, sightVars, advVars>>

\* handle_events, lines 2263-2268: a KEYUP event of W or S
GungeonGame_handle_keyup ==
    /\ \E key \in {"w", "s"} :
         keys' = IF key = "w" THEN [keys EXCEPT !.up = FALSE]
                 ELSE [keys EXCEPT !.down = FALSE]
    /\ last_key' = ""
    /\ UNCHANGED <<shop, money, guns, current_gun, playerVars>>
    /\ UNCHANGED <<ctlVars, roomVars, sessionVars, hazardVars, geoVars, fireVars, placeVars,
                   frameVars, dodgeVars, tickVars, sightVars, advVars>>

\* shop.buy_item(player, item_index), called for any index
Shop_buy ==
    /\ \E index \in 0 .. Len(Items) :
         /\ WithinBounds(BuyItem(index).player)
         /\ money' = BuyItem(index).money
         /\ player' = BuyItem(index).player
         /\ guns' = BuyItem(index).guns
    /\ last_key' = ""
    /\ UNCHANGED <<shop, keys, current_gun>>
    /\ UNCHANGED <<ctlVars, roomVars, sessionVars, hazardVars, game_over, current_level,
                   level_complete_timer, combat_health, geoVars, fireVars, placeVars,
                   frameVars, dodgeVars, tickVars, sightVars, advVars>>

\* player.fire_weapon(), lines 226-229
Player_fire_weapon ==
    /\ guns' = [guns EXCEPT ![current_gun + 1] = GunFire(@)]
    /\ last_key' = ""
    /\ UNCHANGED <<shop, keys, money, current_gun, playerVars>>
    /\ UNCHANGED <<ctlVars, roomVars, sessionVars, hazardVars, geoVars, fireVars, placeVars,
                   frameVars, dodgeVars, tickVars, sightVars, advVars>>

\* player.money += ..., lines 746 and 2459
Player_earns ==
    /\ \E r \in Rewards : money + r <= MaxMoney /\ money' = money + r
    /\ last_key' = ""
    /\ UNCHANGED <<shop, keys, guns, current_gun, playerVars>>
    /\ UNCHANGED <<ctlVars, roomVars, sessionVars, hazardVars, geoVars, fireVars, placeVars,
                   frameVars, dodgeVars, tickVars, sightVars, advVars>>

NextShop ==
    \/ GungeonGame_handle_keydown
    \/ GungeonGame_handle_keyup
    \/ Shop_buy
    \/ Player_fire_weapon
    \/ Player_earns

SpecShop == InitShop /\ [][NextShop]_vars

\* ------------------------------------------------------------ the combat tick
\* GungeonGame.update in the dungeon, for the player and the session
\* (SpecCombat).  Of the level controller the tick reads rooms_cleared and
\* total_rooms; a room of the level is cleared between two ticks.
LevelCompleteDelay == 3000000

\* the player after lines 2389-2397: update, check_collisions and
\* check_hazard_damage
PlayerAfterCombat(p, dt, shots, contacts, kinds) ==
    CheckHazardDamage(HitsOnPlayer(PlayerUpdate(p, dt), shots, contacts), kinds)

\* lines 2403-2408: level_complete_timer after the tick's addition
CompleteTimer(timer, dt) == (IF timer = -1 THEN 0 ELSE timer) + dt

\* lines 2403-2411: the tick calls advance_level
Advances(cleared, total, timer, dt) ==
    Cardinality(cleared) >= total /\ CompleteTimer(timer, dt) > LevelCompleteDelay

\* lines 2419-2420: game_over once the tick is over, before being the player
\* ahead of the level-complete block and after the player behind it
GameOverAfter(before, after) == after.health <= 0

\* GungeonGame.update(dt), lines 2336-2338 and 2382-2423
CombatTick(dt, shots, contacts, kinds) ==
    /\ ~game_over
    /\ ~in_spawn_room
    /\ LET p3 == PlayerAfterCombat(player, dt, shots, contacts, kinds)
           complete == Cardinality(rooms_cleared) >= total_rooms
           advance == Advances(rooms_cleared, total_rooms, level_complete_timer, dt)
           p4 == IF advance THEN AdvanceLevel(p3, current_level) ELSE p3
           lv == IF advance /\ current_level < MaxLevel
                   THEN current_level + 1 ELSE current_level
       IN /\ player' = p4
          /\ current_level' = lv
          /\ level_complete_timer' =
                 IF advance THEN -1
                 ELSE IF complete THEN CompleteTimer(level_complete_timer, dt)
                 ELSE level_complete_timer
          /\ level' = IF advance THEN lv ELSE level
          /\ total_rooms' = IF advance THEN TotalRooms(lv) ELSE total_rooms
          /\ rooms_cleared' = IF advance THEN {} ELSE rooms_cleared
          /\ in_spawn_room' = advance
          /\ player_pos' = IF advance THEN <<160, 120>> ELSE player_pos
          /\ game_over' = GameOverAfter(p3, p4)
          /\ combat_health' = p3.health
    /\ UNCHANGED <<rooms, current_room_id, doors, teleporter_active, enemy_waves,
                   current_wave, roomVars, spawn_door, hazardVars,
                   geoVars, fireVars, placeVars, frameVars, dodgeVars, tickVars, sightVars,
                   advVars, shopVars>>

GungeonGame_update_combat ==
    \E dt \in RoomDts, shots \in SeqsUpTo(EnemyBulletDamages, MaxHits),
       contacts \in SeqsUpTo(ContactDamages, MaxContacts),
       kinds \in {{}, {"ditch"}, {"spike"}, {"lava"}} :
        CombatTick(dt, shots, contacts, kinds)

\* MultiRoomSystem.handle_enemy_waves, lines 3218 and 3253: a room of the
\* level joins rooms_cleared
RoomCleared ==
    /\ ~game_over
    /\ ~in_spawn_room
    /\ \E id \in RoomIds(level) : rooms_cleared' = AddCleared(rooms_cleared, id)
    /\ UNCHANGED <<level, rooms, current_room_id, doors, total_rooms, teleporter_active,
                   enemy_waves, current_wave, player_pos, roomVars, sessionVars, restVars>>

\* GungeonGame.initialize_game, lines 2162-2191, and transition_to_combat
InitCombat ==
    /\ RoomIdle
    /\ SessionIdle
    /\ PlayerIdle
    /\ HazardIdle
    /\ GeoIdle
    /\ level = 1
    /\ rooms = <<>>
    /\ current_room_id = Room1
    /\ doors = <<>>
    /\ rooms_cleared = {}
    /\ total_rooms = TotalRooms(level)
    /\ teleporter_active = FALSE
    /\ enemy_waves = <<>>
    /\ current_wave = <<>>
    /\ player_pos = <<200, 200>>

NextCombat ==
    \/ GungeonGame_update_combat
    \/ RoomCleared

SpecCombat == InitCombat /\ [][NextCombat]_vars

\* ------------------------------------------------------------ damage per tick
\* SpecDamage: the combat ticks of a room that is not cleared, for a player
\* who comes from the shop with up to MaxArmor armor.  last_tick keeps the
\* health and armor the tick found, how many bullets, enemies and hazard
\* tiles touched the player in it, and their damages.
HazardAmounts(kinds) ==
    (IF "spike" \in kinds THEN {SpikeDamage} ELSE {})
      \cup (IF "lava" \in kinds THEN {LavaDamage} ELSE {})

\* GungeonGame.initialize_game and transition_to_combat; Shop.apply_item_effect
\* (line 1057) for the armor
InitDamage ==
    /\ RoomIdle
    /\ SessionIdle
    /\ HazardIdle
    /\ GeoIdle
    /\ level = 1
    /\ rooms = <<>>
    /\ current_room_id = Room1
    /\ doors = <<>>
    /\ rooms_cleared = {}
    /\ total_rooms = TotalRooms(level)
    /\ teleporter_active = FALSE
    /\ enemy_waves = <<>>
    /\ current_wave = <<>>
    /\ player_pos = <<200, 200>>
    /\ \E a \in 0..MaxArmor : player = [NewPlayer EXCEPT !.armor = a]
    /\ game_over = FALSE
    /\ current_level = 1
    /\ level_complete_timer = -1
    /\ combat_health = -1

\* GungeonGame.update(dt), lines 2336-2338 and 2382-2423, the tick of
\* CombatTick with the tick's record
DamageTick(dt, shots, contacts, kinds) ==
    /\ ~game_over
    /\ ~in_spawn_room
    /\ LET p3 == PlayerAfterCombat(player, dt, shots, contacts, kinds)
           complete == Cardinality(rooms_cleared) >= total_rooms
           advance == Advances(rooms_cleared, total_rooms, level_complete_timer, dt)
           p4 == IF advance THEN AdvanceLevel(p3, current_level) ELSE p3
           lv == IF advance /\ current_level < MaxLevel
                   THEN current_level + 1 ELSE current_level
       IN /\ player' = p4
          /\ current_level' = lv
          /\ level_complete_timer' =
                 IF advance THEN -1
                 ELSE IF complete THEN CompleteTimer(level_complete_timer, dt)
                 ELSE level_complete_timer
          /\ level' = IF advance THEN lv ELSE level
          /\ total_rooms' = IF advance THEN TotalRooms(lv) ELSE total_rooms
          /\ rooms_cleared' = IF advance THEN {} ELSE rooms_cleared
          /\ in_spawn_room' = advance
          /\ player_pos' = IF advance THEN <<160, 120>> ELSE player_pos
          /\ game_over' = GameOverAfter(p3, p4)
          /\ combat_health' = p3.health
          /\ last_tick' = [health |-> player.health, armor |-> player.armor,
                           touches |-> Len(shots) + Len(contacts) + Cardinality(kinds),
                           amounts |-> Range(shots) \cup Range(contacts)
                                         \cup HazardAmounts(kinds),
                           ditch |-> "ditch" \in kinds]
    /\ UNCHANGED <<rooms, current_room_id, doors, teleporter_active, enemy_waves,
                   current_wave, roomVars, spawn_door, hazardVars,
                   geoVars, fireVars, placeVars, frameVars, dodgeVars, sightVars, advVars,
                   shopVars>>

GungeonGame_update_damage ==
    \E dt \in RoomDts, shots \in SeqsUpTo(EnemyBulletDamages, MaxHits),
       contacts \in SeqsUpTo(ContactDamages, MaxContacts),
       kinds \in {{}, {"ditch"}, {"spike"}, {"lava"}} :
        DamageTick(dt, shots, contacts, kinds)

\* player.dodge_roll(), the SPACE key of handle_events (line 2247)
Damage_dodge_roll ==
    /\ ~game_over
    /\ player' = DodgeRoll(player)
    /\ UNCHANGED <<ctlVars, roomVars, sessionVars, hazardVars, game_over, current_level,
                   level_complete_timer, combat_health,
                   geoVars, fireVars, placeVars, frameVars, dodgeVars, tickVars, sightVars,
                   advVars, shopVars>>

NextDamage ==
    \/ GungeonGame_update_damage
    \/ Damage_dodge_roll

SpecDamage == InitDamage /\ [][NextDamage]_vars

\* ------------------------------------------------------------ the hazard room
\* A HazardRoom from its construction on (SpecHazard).  rolls holds what the
\* random calls of the construction return: rolls.ditch the pairs
\* <<ditch_width, platform_width>> of generate_ditch_challenge, rolls.spawn
\* for each enemy of spawn_hazard_enemies the tiles its attempts draw; the
\* attempts left over when the drawn tiles are used up miss the floor.
HazardLevels == {1, 4, 7}
DitchWidths == 3 .. 5
PlatformWidths == 2 .. 4
MaxRolls == 2
SpawnTiles == {<<3, 3>>, <<19, 15>>, <<18, 10>>}

\* the tiles <<x, y>> with x1 <= x <= x2 and y1 <= y <= y2
Rect(x1, x2, y1, y2) == {<<x, y>> : x \in x1 .. x2, y \in y1 .. y2}

\* generate_hazard_room, lines 3376-3378 and 3381-3383: the two platforms
StartPlatform == Rect(2, 5, 2, 4)
EndPlatform(width, height) == Rect(width - 6, width - 3, height - 5, height - 3)

\* generate_ditch_challenge, lines 3400-3417: the loop from current_x on, the
\* i-th pair of widths being the next one drawn
RECURSIVE GenerateDitchChallenge(_, _, _, _)
GenerateDitchChallenge(room, current_x, widths, i) ==
    IF ~(current_x < room.width - 8) \/ i > Len(widths) THEN room
    ELSE LET ditch_width == widths[i][1]
             platform_start == current_x + ditch_width
             platform_width == widths[i][2]
             ditch == Rect(current_x, Min(current_x + ditch_width, room.width - 2) - 1,
                           2, room.height - 3)
             platform == Rect(platform_start,
                              Min(platform_start + platform_width, room.width - 2) - 1,
                              3, room.height - 4)
         IN GenerateDitchChallenge(
                [room EXCEPT !.ditches = @ \cup ditch, !.floor_tiles = @ \cup platform],
                platform_start + platform_width + 1, widths, i + 1)

\* generate_spike_maze, lines 3424-3434
GenerateSpikeMaze(room) ==
    LET maze == {t \in Rect(2, room.width - 3, 2, room.height - 3) : (t[1] + t[2]) % 3 # 0}
        floor == room.floor_tiles \cup maze
        traps == {t \in Rect(4, room.width - 5, 4, room.height - 5) :
                     /\ (t[1] - 4) % 3 = 0
                     /\ (t[2] - 4) % 3 = 0
                     /\ t \in floor}
    IN [room EXCEPT !.floor_tiles = floor \ traps, !.spikes = @ \cup traps]

\* generate_lava_crossing, lines 3441-3452
GenerateLavaCrossing(room) ==
    LET lava == Rect(4, room.width - 5, 4, room.height - 5)
        bridge_y == room.height \div 2
        bridges == {t \in Rect(6, room.width - 3, bridge_y, bridge_y) :
                       \E x \in 6 .. room.width - 7 :
                           /\ (x - 6) % 4 = 0
                           /\ t[1] \in x .. Min(x + 2, room.width - 2) - 1}
    IN [room EXCEPT !.lava_tiles = (@ \cup lava) \ bridges,
                    !.floor_tiles = @ \cup bridges]

\* spawn_hazard_enemies, line 3468: the columns an enemy may be placed in
OffPlatforms(tile_x, width) == ~(tile_x < 6 \/ tile_x > width - 6)

\* spawn_hazard_enemies, lines 3461-3474, for one enemy: the tile it is placed
\* on, <<>> if no attempt places it; tiles[i] is the next tile drawn
RECURSIVE PlaceHazardEnemy(_, _, _)
PlaceHazardEnemy(room, tiles, i) ==
    IF i > Len(tiles) THEN <<>>
    ELSE IF tiles[i] \in room.floor_tiles /\ OffPlatforms(tiles[i][1], room.width)
           THEN <<tiles[i]>>
           ELSE PlaceHazardEnemy(room, tiles, i + 1)

\* spawn_hazard_enemies, lines 3459-3474: the enemies of draws from index k on
RECURSIVE SpawnHazardEnemies(_, _, _)
SpawnHazardEnemies(room, draws, k) ==
    IF k > Len(draws) THEN room
    ELSE LET at == PlaceHazardEnemy(room, draws[k], 1)
         IN SpawnHazardEnemies([room EXCEPT !.placed = @ \o at,
                                            !.enemies = @ + Len(at)],
                               draws, k + 1)

\* HazardRoom.__init__ and generate_hazard_room, lines 3349-3394; the enemies
\* of Room.__init__ stay in the list (line 3350)
GenerateHazardRoom(lv, r) ==
    LET base == NewRoom("hazard", lv)
        room == [kind |-> base.kind, width |-> base.width, height |-> base.height,
                 enemies |-> base.enemies, cleared |-> base.cleared,
                 challenge_complete |-> base.challenge_complete,
                 floor_tiles |-> StartPlatform \cup EndPlatform(base.width, base.height),
                 ditches |-> {}, spikes |-> {}, lava_tiles |-> {}, placed |-> <<>>]
        hazards == IF lv <= 3 THEN GenerateDitchChallenge(room, 6, r.ditch, 1)
                   ELSE IF lv <= 6 THEN GenerateSpikeMaze(room)
                   ELSE GenerateLavaCrossing(room)
    IN SpawnHazardEnemies(hazards, r.spawn, 1)

\* the points the player is moved over: on the start platform, in the column
\* next to it, on the end platform, and right of and below the end platform
HazardPoints == {<<40, 40>>, <<100, 100>>, <<320, 250>>, <<370, 250>>, <<320, 290>>}

\* HazardRoom(level), the player entering over the start platform
InitHazard ==
    /\ RoomIdle
    /\ SessionIdle
    /\ PlayerIdle
    /\ GeoIdle
    /\ level \in HazardLevels
    /\ rooms = <<>>
    /\ current_room_id = HazardRoomId
    /\ doors = <<>>
    /\ rooms_cleared = {}
    /\ total_rooms = TotalRooms(level)
    /\ teleporter_active = FALSE
    /\ enemy_waves = <<>>
    /\ current_wave = <<>>
    /\ player_pos = <<40, 40>>
    /\ rolls \in [ditch : IF level <= 3 THEN [1 .. 2 -> DitchWidths \X PlatformWidths]
                               ELSE {<<>>},
                  spawn : UNION {[1 .. n -> UNION {[1 .. k -> SpawnTiles] : k \in 1 .. MaxRolls}] :
                                    n \in 1 .. 2}]
    /\ hazard_room = GenerateHazardRoom(level, rolls)

\* HazardRoom.update(dt, player)
HazardRoom_update ==
    /\ hazard_room' = HazardRoomUpdate(hazard_room, player_pos)
    /\ UNCHANGED <<ctlVars, roomVars, sessionVars, playerVars, rolls,
                   geoVars, fireVars, placeVars, frameVars, dodgeVars, tickVars, sightVars,
                   advVars, shopVars>>

\* Player.update moves the player
HazardRoom_move ==
    /\ \E p \in HazardPoints : player_pos' = p
    /\ UNCHANGED <<level, rooms, current_room_id, doors, rooms_cleared, total_rooms,
                   teleporter_active, enemy_waves, current_wave, roomVars, sessionVars,
                   restVars>>

\* Room.check_collisions, lines 744-745: an enemy of the room is removed
HazardRoom_enemy_removed ==
    /\ hazard_room.enemies > 0
    /\ hazard_room' = [hazard_room EXCEPT !.enemies = @ - 1]
    /\ UNCHANGED <<ctlVars, roomVars, sessionVars, playerVars, rolls,
                   geoVars, fireVars, placeVars, frameVars, dodgeVars, tickVars, sightVars,
                   advVars, shopVars>>

NextHazard ==
    \/ HazardRoom_update
    \/ HazardRoom_move
    \/ HazardRoom_enemy_removed

SpecHazard == InitHazard /\ [][NextHazard]_vars

\* ------------------------------------------------------------ doors
\* Door objects of both directions and the spawn room's door, each updated by
\* calls of its own with any dt >= 0, in ticks, and any proximity (SpecDoor).
DoorDts == {0, 1, 2, 15}
DoorDirections == {"horizontal", "vertical"}

\* Door(x, y, direction), lines 922-931, and SpawnRoom's door, line 1157
InitDoor ==
    /\ RoomIdle
    /\ SessionIdle
    /\ PlayerIdle
    /\ HazardIdle
    /\ GeoIdle
    /\ level = 1
    /\ rooms = <<>>
    /\ current_room_id = <<>>
    /\ doors = [d \in DoorDirections |-> NewDoor(24 * 16, 10 * 16, d)]
    /\ rooms_cleared = {}
    /\ total_rooms = 0
    /\ teleporter_active = FALSE
    /\ enemy_waves = <<>>
    /\ current_wave = <<>>
    /\ player_pos = <<0, 0>>

\* Door.update(dt, player_nearby) on one of the doors
Door_update ==
    /\ \E d \in DoorDirections, dt \in DoorDts, player_nearby \in BOOLEAN :
         doors' = [doors EXCEPT ![d] = DoorUpdate(doors[d], dt, player_nearby)]
    /\ UNCHANGED <<level, rooms, current_room_id, rooms_cleared, total_rooms,
                   teleporter_active, enemy_waves, current_wave, player_pos, roomVars,
                   sessionVars, restVars>>

\* SpawnRoom.update(dt, player_pos), lines 1160-1166: the update of its door
SpawnRoom_update ==
    /\ \E dt \in DoorDts, player_nearby \in BOOLEAN :
         spawn_door' = DoorUpdate(spawn_door, dt, player_nearby)
    /\ UNCHANGED <<ctlVars, roomVars, in_spawn_room, restVars>>

NextDoor ==
    \/ Door_update
    \/ SpawnRoom_update

SpecDoor == InitDoor /\ [][NextDoor]_vars

\* ------------------------------------------------------------ doors and the player
\* SpecDoorFair: the doors of SpecDoor updated as their owners update them,
\* player_nearby being computed from the player's position, which moves
\* between a point next to the dungeon doors, a point next to the spawn
\* room's door, and a point far from both.
DoorPoints == {<<390, 165>>, <<112, 160>>, <<120, 96>>}

\* MultiRoomSystem.update, line 3211: player_nearby of a door of the level
PlayerNearby(door, pos) == Dist2(<<door.x, door.y>>, pos) < 50 * 50

\* SpawnRoom.update, lines 1161-1162: player_nearby of the spawn room's door
SpawnPlayerNearby(door, pos) == Dist2(DoorCentre(door), pos) < 40 * 40

\* door.update(dt, player_nearby) as MultiRoomSystem.update calls it for door d
Door_update_nearby(d) ==
    /\ \E dt \in DoorDts :
         doors' = [doors EXCEPT ![d] = DoorUpdate(doors[d], dt, PlayerNearby(doors[d], player_pos))]
    /\ UNCHANGED <<level, rooms, current_room_id, rooms_cleared, total_rooms,
                   teleporter_active, enemy_waves, current_wave, player_pos, roomVars,
                   sessionVars, restVars>>

\* SpawnRoom.update(dt, player_pos)
SpawnRoom_update_nearby ==
    /\ \E dt \in DoorDts :
         spawn_door' = DoorUpdate(spawn_door, dt, SpawnPlayerNearby(spawn_door, player_pos))
    /\ UNCHANGED <<ctlVars, roomVars, in_spawn_room, restVars>>

\* Player.update: the player moves
Door_player_moves ==
    /\ \E p \in DoorPoints : player_pos' = p
    /\ UNCHANGED <<level, rooms, current_room_id, doors, rooms_cleared, total_rooms,
                   teleporter_active, enemy_waves, current_wave, roomVars,
                   sessionVars, restVars>>

NextDoorFair ==
    \/ \E d \in DoorDirections : Door_update_nearby(d)
    \/ SpawnRoom_update_nearby
    \/ Door_player_moves

\* every door goes on being updated: the game loop calls update every frame
SpecDoorFair ==
    /\ InitDoor
    /\ [][NextDoorFair]_vars
    /\ \A d \in DoorDirections : WF_vars(Door_update_nearby(d))
    /\ WF_vars(SpawnRoom_update_nearby)


\* ------------------------------------------------------------ the rooms of a level
\* SpecFrame: the level controller of level 1 with the projectiles of every
\* room followed by age, in ticks, and rooms left while enemies, projectiles
\* and unfinished waves are still in them.  The player stays where
\* transition_to_room puts them; Spec follows the updates of a moving player.

\* Bullet.lifetime, 5.0 s, in ticks
BulletLifetime == 5 * TicksPerSecond

\* the dt of the update calls, in ticks
FrameDts == {75}

\* At most MaxBullets projectiles are in flight in the rooms of the level.
MaxBullets == 2

\* Room.__init__: player_bullets and enemy_bullets, each bullet its age
NoBullets == [player_bullets |-> <<>>, enemy_bullets |-> <<>>]

\* the projectiles in flight in the rooms ids
RECURSIVE CountBullets(_, _)
CountBullets(bs, ids) ==
    IF ids = {} THEN 0
    ELSE LET id == CHOOSE x \in ids : TRUE
         IN Len(bs[id].player_bullets) + Len(bs[id].enemy_bullets)
            + CountBullets(bs, ids \ {id})

\* [b for b in bullets if b.update(dt)], lines 733-734 with Bullet.update
UpdateBullets(bullets, dt) ==
    LET Alive(age) == age < BulletLifetime
    IN SelectSeq([i \in DOMAIN bullets |-> bullets[i] + dt], Alive)

\* Room.update on the projectiles of a room: `fired` of its enemies fire
\* (lines 703-706), then every bullet of the room is updated
RoomUpdateBullets(b, dt, fired) ==
    [player_bullets |-> UpdateBullets(b.player_bullets, dt),
     enemy_bullets |-> UpdateBullets(b.enemy_bullets \o [i \in 1 .. fired |-> 0], dt)]

\* lines 3205-3206, mutated: the update runs in every room of the level
UpdatedBullets_All(bs, cur, dt, fired) ==
    [id \in DOMAIN bs |-> RoomUpdateBullets(bs[id], dt, IF id = cur THEN fired ELSE 0)]

\* lines 3205-3206: current_room.update(dt, player) on get_current_room()
UpdatedBullets(bs, cur, dt, fired) ==
    [bs EXCEPT ![cur] = RoomUpdateBullets(bs[cur], dt, fired)]

\* MultiRoomSystem.__init__ at level 1, every room with its own empty lists
InitFrame ==
    /\ RoomIdle
    /\ SessionIdle
    /\ PlayerIdle
    /\ HazardIdle
    /\ walls = {}
    /\ enemy_pos = <<>>
    /\ room_ticks = 0
    /\ FireIdle
    /\ PlaceIdle
    /\ ShopIdle
    /\ AdvIdle
    /\ SightIdle
    /\ TickIdle
    /\ DodgeIdle
    /\ level = 1
    /\ rooms = [id \in RoomIds(level) |-> NewRoom(ConfigOf(level, id).type, level)]
    /\ current_room_id = Room1
    /\ doors = [d \in Range(DoorOrder(level)) |-> NewDoor(24 * 16, 10 * 16, "horizontal")]
    /\ rooms_cleared = {}
    /\ total_rooms = TotalRooms(level)
    /\ teleporter_active = FALSE
    /\ enemy_waves = [id \in CombatIds(level) |-> GenerateEnemyWaves(level)]
    /\ current_wave = [id \in CombatIds(level) |-> 0]
    /\ player_pos = <<200, 200>>
    /\ room_bullets = [id \in RoomIds(level) |-> NoBullets]

\* MultiRoomSystem.update(dt, player), the projectiles of the rooms included
MultiRoomSystem_update ==
    \E dt \in FrameDts, placed \in 0 .. MaxSpawn, fired \in 0 .. 1 :
      LET cur == current_room_id
          room1 == CurrentRoomUpdate(rooms[cur], player_pos)
          doors1 == [d \in DOMAIN doors |->
                       DoorUpdate(doors[d], dt,
                                  Dist2(<<doors[d].x, doors[d].y>>, player_pos) < 50 * 50)]
          isHazard == room1.kind = "hazard"
          doWaves == ~isHazard /\ cur # BossRoomId
          hw == IF doWaves /\ cur \in DOMAIN enemy_waves
                  THEN HandleEnemyWaves(cur, enemy_waves[cur], current_wave[cur],
                                        room1.enemies, rooms_cleared, placed)
                  ELSE [waves |-> <<>>, idx |-> 0, enemies |-> room1.enemies,
                        cleared_set |-> rooms_cleared]
          cleared1 == IF isHazard
                        THEN (IF room1.challenge_complete /\ cur \notin rooms_cleared
                                THEN AddCleared(rooms_cleared, cur) ELSE rooms_cleared)
                        ELSE hw.cleared_set
          st == CheckRoomTransitions(DoorOrder(level), 1, doors1,
                                     [cur |-> cur, pos |-> player_pos], DOMAIN rooms)
      IN /\ fired > 0 => /\ rooms[cur].enemies > 0
                         /\ CountBullets(room_bullets, DOMAIN rooms) < MaxBullets
         /\ rooms' = [rooms EXCEPT ![cur] = [room1 EXCEPT !.enemies = hw.enemies]]
         /\ room_bullets' = UpdatedBullets(room_bullets, cur, dt, fired)
         /\ doors' = doors1
         /\ enemy_waves' = IF doWaves /\ cur \in DOMAIN enemy_waves
                             THEN [enemy_waves EXCEPT ![cur] = hw.waves] ELSE enemy_waves
         /\ current_wave' = IF doWaves /\ cur \in DOMAIN enemy_waves
                              THEN [current_wave EXCEPT ![cur] = hw.idx] ELSE current_wave
         /\ rooms_cleared' = cleared1
         /\ current_room_id' = st.cur
         /\ player_pos' = st.pos
         /\ teleporter_active' = TeleporterAfter(cleared1, total_rooms, teleporter_active)
         /\ UNCHANGED <<level, total_rooms, roomVars, sessionVars, playerVars,
                        hazardVars, geoVars, fireVars, placeVars, dodgeVars, tickVars,
                        sightVars, advVars, shopVars>>

\* get_current_room().add_player_bullet(bullet), line 2387
Frame_add_player_bullet ==
    /\ CountBullets(room_bullets, DOMAIN rooms) < MaxBullets
    /\ room_bullets' = [room_bullets EXCEPT
                          ![current_room_id].player_bullets = Append(@, 0)]
    /\ UNCHANGED <<ctlVars, roomVars, sessionVars, playerVars, hazardVars, geoVars,
                   fireVars, placeVars, dodgeVars, tickVars, sightVars, advVars, shopVars>>

\* get_current_room().check_collisions(player, self), line 2392: the bullets
\* that hit an enemy, the player or a wall leave the lists of the active room,
\* and a hit of a player bullet may remove its enemy
Frame_check_collisions ==
    LET cur == current_room_id
        b == room_bullets[cur]
    IN \E keepP \in SUBSET DOMAIN b.player_bullets,
          keepE \in SUBSET DOMAIN b.enemy_bullets,
          killed \in 0 .. 1 :
         /\ keepP # DOMAIN b.player_bullets \/ keepE # DOMAIN b.enemy_bullets
         /\ killed > 0 => rooms[cur].enemies > 0 /\ keepP # DOMAIN b.player_bullets
         /\ rooms' = [rooms EXCEPT ![cur].enemies = @ - killed]
         /\ room_bullets' = [room_bullets EXCEPT
                               ![cur] = [player_bullets |-> Pick(b.player_bullets, keepP, 1),
                                         enemy_bullets |-> Pick(b.enemy_bullets, keepE, 1)]]
         /\ UNCHANGED <<level, current_room_id, doors, rooms_cleared, total_rooms,
                        teleporter_active, enemy_waves, current_wave, player_pos,
                        roomVars, sessionVars, playerVars, hazardVars, geoVars,
                        fireVars, placeVars, dodgeVars, tickVars, sightVars, advVars, shopVars>>

NextFrame ==
    \/ MultiRoomSystem_update
    \/ Frame_add_player_bullet
    \/ Frame_check_collisions
    \/ TransitionToRoom

SpecFrame == InitFrame /\ [][NextFrame]_vars

\* ------------------------------------------------------------ the session's spawn room
\* SpecGame follows GungeonGame.update while the session is in its spawn room
\* (lines 2340-2380), with the level controller of level 1 driven as in Spec
\* once the session is in the dungeon, and the boss room of that controller
\* followed enemy by enemy in the room variables.

\* Player.size
PlayerSize == 8

\* the teleporter point of the spawn room, line 2369
TeleporterPos == <<120, 96>>

\* where the spawn-room tick leaves the player when nothing is in the way:
\* at the teleporter point (where a new game starts), at the room's centre
\* (where return_to_spawn puts the player), before the door, past the door,
\* in the left wall
SpawnPoints == {<<120, 96>>, <<160, 120>>, <<112, 160>>, <<112, 186>>, <<8, 96>>}

\* SpawnRoom.generate_spawn_room: the walls of the 15 x 12 room
SpawnWall(t) ==
    /\ t[1] \in {0, 15 - 1} \/ t[2] \in {0, 12 - 1}
    /\ t \notin {<<15 \div 2 - 1, 12 - 1>>, <<15 \div 2, 12 - 1>>}

\* SpawnRoom.check_door_collision, mutated: the door never stops the player
CheckDoorCollision_Off(door, pos, size) == FALSE

\* SpawnRoom.check_door_collision(player_pos, player_size) for the one door
CheckDoorCollision(door, pos, size) ==
    LET r == GetCollisionRect(door)
    IN IF r = <<>> THEN FALSE
       ELSE /\ 2 * pos[1] - size < 2 * (r[1] + r[3])
            /\ 2 * pos[1] + size > 2 * r[1]
            /\ 2 * pos[2] - size < 2 * (r[2] + r[4])
            /\ 2 * pos[2] + size > 2 * r[2]

\* SpawnRoom.check_transition(player_pos)
CheckTransition(pos) == pos[2] > (12 - 1) * 16 + 8

\* GungeonGame.update, lines 2342-2365: the door after spawn_room.update and
\* the player after Player.update towards p, the wall and door checks and
\* transition_to_combat
SpawnMove(door, old, dt, p) ==
    LET door1 == DoorUpdate(door, dt, Dist2(DoorCentre(door), old) < 40 * 40)
        p1 == IF SpawnWall(TileOf(p)) THEN old ELSE p
        p2 == IF CheckDoorCollision(door1, p1, PlayerSize) THEN old ELSE p1
        combat == CheckTransition(p2)
    IN [door |-> door1,
        in_spawn |-> ~combat,
        pos |-> IF combat THEN <<200, 200>> ELSE p2,
        to_room1 |-> combat]

\* lines 2368-2370, mutated: the teleporter check is skipped
TeleporterTouched_Off(active, pos) == FALSE

\* GungeonGame.update, lines 2368-2370: the teleporter is touched
TeleporterTouched(active, pos) == active /\ Dist2(pos, TeleporterPos) < 25 * 25

\* GungeonGame.update(dt) in the spawn room, the player's input leading to p
SpawnRoomTick(dt, p) ==
    /\ in_spawn_room
    /\ LET m == SpawnMove(spawn_door, player_pos, dt, p)
           tele == TeleporterTouched(teleporter_active, m.pos)
           b == SpawnBoss(room_enemies, boss, boss_spawned, level)
       IN /\ spawn_door' = m.door
          /\ in_spawn_room' = (m.in_spawn /\ ~tele)
          /\ current_room_id' = IF tele THEN BossRoomId
                                ELSE IF m.to_room1 THEN Room1 ELSE current_room_id
          /\ player_pos' = IF tele THEN <<240, 320>> ELSE m.pos
          /\ room_enemies' = IF tele THEN b.enemies ELSE room_enemies
          /\ boss' = IF tele THEN b.boss ELSE boss
          /\ boss_spawned' = IF tele THEN b.boss_spawned ELSE boss_spawned
          /\ rooms' = IF tele THEN [rooms EXCEPT ![BossRoomId].enemies = Len(b.enemies)]
                      ELSE rooms
    /\ UNCHANGED <<level, doors, rooms_cleared, total_rooms, teleporter_active,
                   enemy_waves, current_wave, room_class, player_bullets,
                   enemy_bullets, room_cleared, enemies_killed, room_time,
                   special_attacks, burst_bullets, restVars>>

GungeonGame_update == \E dt \in Dts, p \in SpawnPoints : SpawnRoomTick(dt, p)

\* GungeonGame.return_to_spawn()
GungeonGame_return_to_spawn ==
    /\ in_spawn_room' = TRUE
    /\ player_pos' = <<160, 120>>
    /\ UNCHANGED <<level, rooms, current_room_id, doors, rooms_cleared, total_rooms,
                   teleporter_active, enemy_waves, current_wave, roomVars, spawn_door,
                   restVars>>

\* GungeonGame.initialize_game, lines 2162-2182, with the boss room of the new
\* level controller as BossRoom.__init__ leaves it
InitGame ==
    /\ level = 1
    /\ rooms = [id \in RoomIds(level) |-> NewRoom(ConfigOf(level, id).type, level)]
    /\ current_room_id = Room1
    /\ doors = [d \in Range(DoorOrder(level)) |-> NewDoor(24 * 16, 10 * 16, "horizontal")]
    /\ rooms_cleared = {}
    /\ total_rooms = TotalRooms(level)
    /\ teleporter_active = FALSE
    /\ enemy_waves = [id \in CombatIds(level) |-> GenerateEnemyWaves(level)]
    /\ current_wave = [id \in CombatIds(level) |-> 0]
    /\ player_pos = <<120, 96>>
    /\ in_spawn_room = TRUE
    /\ spawn_door = SpawnDoor
    /\ PlayerIdle
    /\ HazardIdle
    /\ GeoIdle
    /\ room_class = "BossRoom"
    /\ room_enemies = [i \in 1 .. Min(MinEnemies(level), MaxSpawn) |-> NewEnemy(level)]
    /\ player_bullets = <<>>
    /\ enemy_bullets = 0
    /\ room_cleared = FALSE
    /\ boss = <<>>
    /\ boss_spawned = FALSE
    /\ enemies_killed = 0
    /\ room_time = 0
    /\ special_attacks = 0
    /\ burst_bullets = 0

\* In the dungeon the level controller is driven as in Spec until the boss
\* room is entered; return_to_spawn is called once the teleporter is active.
NextGame ==
    \/ GungeonGame_update
    \/ (~in_spawn_room /\ teleporter_active /\ GungeonGame_return_to_spawn)
    \/ (~in_spawn_room /\ current_room_id # BossRoomId /\ Next)

SpecGame == InitGame /\ [][NextGame]_vars

\* ------------------------------------------------------------ a game from its start
\* SpecSession: the session from initialize_game on, tick by tick as
\* GungeonGame.update runs: in the spawn room the tick of SpecGame, in the
\* dungeon the player's move, the level controller's update, the kills of
\* check_collisions and the level-complete block.  level_complete_timer
\* counts ticks of 1/30 s here, -1 while the attribute does not exist.  The
\* levels are followed up to MaxSessionLevel.  SpecSessionFair: the game loop
\* goes on calling update.  SpecSessionOpen: transition_to_room is called as
\* in Spec as well, so that the rooms behind the first one are played.
MaxSessionLevel == 2

\* 3.0 s of line 2411, in ticks
LevelCompleteTicks == 3 * TicksPerSecond

\* MultiRoomSystem(level=lv), lines 3053-3073, as line 2414 constructs it
NewController(lv) ==
    [level |-> lv,
     rooms |-> [id \in RoomIds(lv) |-> NewRoom(ConfigOf(lv, id).type, lv)],
     current_room_id |-> Room1,
     doors |-> [d \in Range(DoorOrder(lv)) |-> NewDoor(24 * 16, 10 * 16, "horizontal")],
     rooms_cleared |-> {},
     total_rooms |-> TotalRooms(lv),
     teleporter_active |-> FALSE,
     enemy_waves |-> [id \in CombatIds(lv) |-> GenerateEnemyWaves(lv)],
     current_wave |-> [id \in CombatIds(lv) |-> 0]]

\* the kills of check_collisions: left enemies of n stay in the room
AfterKills(room, left) == [room EXCEPT !.enemies = Min(@, left)]

\* GungeonGame.update(dt) in the dungeon, lines 2382-2417: the player's input
\* leads to p, placed is what spawn_enemy_wave places, left what the player's
\* bullets leave of the enemies
SessionCombatTick(dt, p, placed, left) ==
    /\ ~game_over
    /\ ~in_spawn_room
    /\ current_room_id # BossRoomId
    /\ current_level < MaxSessionLevel
    /\ LET cur == current_room_id
           room1 == CurrentRoomUpdate(rooms[cur], p)
           doors1 == [d \in DOMAIN doors |->
                        DoorUpdate(doors[d], dt,
                                   Dist2(<<doors[d].x, doors[d].y>>, p) < 50 * 50)]
           isHazard == room1.kind = "hazard"
           doWaves == ~isHazard /\ cur # BossRoomId
           hw == IF doWaves /\ cur \in DOMAIN enemy_waves
                   THEN HandleEnemyWaves(cur, enemy_waves[cur], current_wave[cur],
                                         room1.enemies, rooms_cleared, placed)
                   ELSE [waves |-> <<>>, idx |-> 0, enemies |-> room1.enemies,
                         cleared_set |-> rooms_cleared]
           cleared1 == IF isHazard
                         THEN (IF room1.challenge_complete /\ cur \notin rooms_cleared
                                 THEN AddCleared(rooms_cleared, cur) ELSE rooms_cleared)
                         ELSE hw.cleared_set
           st == CheckRoomTransitions(DoorOrder(level), 1, doors1,
                                      [cur |-> cur, pos |-> p], DOMAIN rooms)
           rooms1 == [rooms EXCEPT ![cur] = [room1 EXCEPT !.enemies = hw.enemies]]
           rooms2 == [rooms1 EXCEPT ![st.cur] = AfterKills(@, left)]
           complete == Cardinality(cleared1) >= total_rooms
           timer == (IF level_complete_timer = -1 THEN 0 ELSE level_complete_timer) + dt
           advance == complete /\ timer > LevelCompleteTicks
           lv == IF current_level < MaxLevel THEN current_level + 1 ELSE current_level
           new == NewController(lv)
       IN IF advance
            THEN /\ level' = new.level
                 /\ rooms' = new.rooms
                 /\ current_room_id' = new.current_room_id
                 /\ doors' = new.doors
                 /\ rooms_cleared' = new.rooms_cleared
                 /\ total_rooms' = new.total_rooms
                 /\ teleporter_active' = new.teleporter_active
                 /\ enemy_waves' = new.enemy_waves
                 /\ current_wave' = new.current_wave
                 /\ player' = AdvanceLevel(player, current_level)
                 /\ current_level' = lv
                 /\ level_complete_timer' = -1
                 /\ in_spawn_room' = TRUE
                 /\ player_pos' = <<160, 120>>
            ELSE /\ rooms' = rooms2
                 /\ doors' = doors1
                 /\ enemy_waves' = IF doWaves /\ cur \in DOMAIN enemy_waves
                                     THEN [enemy_waves EXCEPT ![cur] = hw.waves]
                                     ELSE enemy_waves
                 /\ current_wave' = IF doWaves /\ cur \in DOMAIN enemy_waves
                                      THEN [current_wave EXCEPT ![cur] = hw.idx]
                                      ELSE current_wave
                 /\ rooms_cleared' = cleared1
                 /\ current_room_id' = st.cur
                 /\ player_pos' = st.pos
                 /\ teleporter_active' =
                        TeleporterAfter(cleared1, total_rooms, teleporter_active)
                 /\ level_complete_timer' = IF complete THEN timer ELSE level_complete_timer
                 /\ UNCHANGED <<level, total_rooms, player, current_level, in_spawn_room>>
    /\ UNCHANGED <<roomVars, spawn_door, game_over, combat_health, hazardVars, geoVars,
                   fireVars, placeVars, frameVars, dodgeVars, tickVars, sightVars, advVars,
                   shopVars>>

GungeonGame_update_dungeon ==
    \E dt \in Dts, p \in Points, placed \in 0 .. MaxSpawn, left \in 0 .. MaxSpawn :
        SessionCombatTick(dt, p, placed, left)

\* GungeonGame.update(dt) in the spawn room
GungeonGame_update_spawn == GungeonGame_update

\* multi_room_system.transition_to_room(target_room_id, player), called as
\* in Spec from a room not started or finished
Session_transition_to_room ==
    /\ ~in_spawn_room
    /\ current_room_id # BossRoomId
    /\ level_complete_timer = -1
    /\ Settled(current_room_id)
    /\ TransitionToRoom

InitSession == InitGame

NextSession ==
    \/ GungeonGame_update_spawn
    \/ GungeonGame_update_dungeon

SpecSession == InitSession /\ [][NextSession]_vars

\* every frame of the game loop calls update
SpecSessionFair ==
    SpecSession /\ WF_vars(GungeonGame_update_spawn) /\ WF_vars(GungeonGame_update_dungeon)

NextSessionOpen ==
    \/ GungeonGame_update_spawn
    \/ GungeonGame_update_dungeon
    \/ Session_transition_to_room

SpecSessionOpen == InitSession /\ [][NextSessionOpen]_vars

\* ------------------------------------------------------------ the spawn door
\* The session's tick in the spawn room with the player walking: every tick
\* Player.update moves the player by less than MaxStep units, to a point of a
\* grid of 2 units around the door (SpecSpawn).
MaxStep == 16
WalkPoints == {<<84 + 2 * i, 96 + 2 * j>> : i \in 0 .. 38, j \in 0 .. 52}

\* GungeonGame.update(dt) in the spawn room, Player.update moving the player
\* by less than MaxStep
GungeonGame_update_walk ==
    \E dt \in Dts, p \in WalkPoints :
        /\ Dist2(p, player_pos) < MaxStep * MaxStep
        /\ SpawnRoomTick(dt, p)

NextSpawn ==
    \/ GungeonGame_update_walk
    \/ (~in_spawn_room /\ GungeonGame_return_to_spawn)

SpecSpawn == InitGame /\ [][NextSpawn]_vars

\* ------------------------------------------------------------ room geometry
\* Positions of SpecWalls and SpecEnemies are pairs of integers counting
\* hundredths of a unit (Hundred to the unit); a quotient is rounded towards
\* zero and a square root down, where the code computes in floats.
Hundred == 100
TileSize == 16
RoomWidth == 25
RoomHeight == 20
EnemySize == 8

\* 0.1, below which validate_position and the separation pass do not push
Tenth == Hundred \div 10

\* a / b rounded towards zero, b > 0
Quot(a, b) == IF a >= 0 THEN a \div b ELSE 0 - ((0 - a) \div b)

RECURSIVE SqrtBetween(_, _, _)
SqrtBetween(n, lo, hi) ==
    IF lo >= hi THEN lo
    ELSE LET mid == (lo + hi + 1) \div 2
         IN IF mid * mid <= n THEN SqrtBetween(n, mid, hi)
            ELSE SqrtBetween(n, lo, mid - 1)

\* math.sqrt, rounded down; n < 2^30
Sqrt(n) == SqrtBetween(n, 0, 32767)

\* int(pos.x // 16), int(pos.y // 16) of a position in hundredths
TileAt(p) == <<p[1] \div (TileSize * Hundred), p[2] \div (TileSize * Hundred)>>

\* the centre of a wall tile: check_x * 16 + 8, check_y * 16 + 8
WallCentre(w) == <<(w[1] * TileSize + 8) * Hundred, (w[2] * TileSize + 8) * Hundred>>

\* margin and required_distance of Room.validate_position
Margin(size) == (size * Hundred) \div 2 + 2 * Hundred
RequiredDistance(size) == (size * Hundred) \div 2 + 8 * Hundred

\* the two if / elif pairs that keep a position within the room bounds
ClampToRoom(p, size) ==
    LET lo == Margin(size)
        hx == RoomWidth * TileSize * Hundred - Margin(size)
        hy == RoomHeight * TileSize * Hundred - Margin(size)
        cl(v, hi) == IF v < lo THEN lo ELSE IF v > hi THEN hi ELSE v
    IN <<cl(p[1], hx), cl(p[2], hy)>>

\* the wall tiles of the 3x3 grid around the tile of p
WallsAround(ws, p) ==
    {w \in ws : /\ w[1] - TileAt(p)[1] \in {-1, 0, 1}
                /\ w[2] - TileAt(p)[2] \in {-1, 0, 1}}

\* those of them that p collides with: wall_distance < required_distance
WallCollisions(ws, p, size) ==
    {w \in WallsAround(ws, p) :
        Dist2(WallCentre(w), p) < RequiredDistance(size) * RequiredDistance(size)}

\* push_dir * push_strength of one colliding wall tile; nothing within 0.1
WallPush(w, p, size) ==
    LET d2 == Dist2(WallCentre(w), p)
        d  == Sqrt(d2)
        strength == RequiredDistance(size) - d + Hundred
    IN IF d2 > Tenth * Tenth
       THEN <<Quot((p[1] - WallCentre(w)[1]) * strength, d),
              Quot((p[2] - WallCentre(w)[2]) * strength, d)>>
       ELSE <<0, 0>>

RECURSIVE SumPushes(_, _, _)
SumPushes(hits, p, size) ==
    IF hits = {} THEN <<0, 0>>
    ELSE LET w == CHOOSE x \in hits : TRUE
             rest == SumPushes(hits \ {w}, p, size)
         IN <<WallPush(w, p, size)[1] + rest[1], WallPush(w, p, size)[2] + rest[2]>>

\* Room.validate_position(pos, size): the position it leaves in pos
ValidatePosition(ws, pos, size) ==
    LET p1 == ClampToRoom(pos, size)
        hits == WallCollisions(ws, p1, size)
        push == SumPushes(hits, p1, size)
        n == Cardinality(hits)
    IN IF n > 0
       THEN ClampToRoom(<<p1[1] + Quot(push[1], n), p1[2] + Quot(push[2], n)>>, size)
       ELSE p1

\* the perimeter walls of Room.generate_room
Perimeter ==
    {<<x, y>> \in (0 .. RoomWidth - 1) \X (0 .. RoomHeight - 1) :
        x = 0 \/ y = 0 \/ x = RoomWidth - 1 \/ y = RoomHeight - 1}

\* obstacles of generate_room: the tiles kept of a 2x2 block at (5,5)
Obstacles == {{<<5, 5>>}, {<<5, 5>>, <<6, 5>>}, {<<5, 5>>, <<6, 5>>, <<5, 6>>}}

\* the positions an entity is handed to validate_position at: every second
\* unit of the room's corner at the origin and of the tiles around the block
GridPoints ==
    {<<2 * i * Hundred, 2 * j * Hundred>> : i \in 0 .. 16, j \in 0 .. 16}
    \cup {<<(64 + 2 * i) * Hundred, (64 + 2 * j) * Hundred>> : i \in 0 .. 32, j \in 0 .. 32}

InitWalls ==
    /\ RoomIdle
    /\ CtlIdle
    /\ SessionIdle
    /\ PlayerIdle
    /\ HazardIdle
    /\ level = 1
    /\ \E o \in Obstacles : walls = Perimeter \cup o
    /\ \E p \in GridPoints : enemy_pos = <<p>>
    /\ room_ticks = 0
    /\ FireIdle
    /\ PlaceIdle
    /\ FrameIdle
    /\ ShopIdle
    /\ AdvIdle
    /\ SightIdle
    /\ TickIdle
    /\ DodgeIdle

\* Room.validate_enemy_position(enemy)
Room_validate_enemy_position ==
    /\ \E i \in DOMAIN enemy_pos :
          enemy_pos' = [enemy_pos EXCEPT ![i] = ValidatePosition(walls, enemy_pos[i], EnemySize)]
    /\ UNCHANGED <<ctlVars, roomVars, sessionVars, playerVars, hazardVars, fireVars,
                   placeVars, walls,
                   room_ticks,
                   frameVars, dodgeVars, tickVars, sightVars, advVars, shopVars>>

NextWalls == Room_validate_enemy_position

SpecWalls == InitWalls /\ [][NextWalls]_vars

\* ------------------------------------------------------------ enemies of a room
\* min_distance of the separation pass of Room.update
MinDistance(size1, size2) == ((size1 + size2) * Hundred) \div 2 + 5 * Hundred

\* the body of the separation loop for the pair (i, j) of the positions ps
SeparatePair(ws, ps, i, j) ==
    LET d2 == Dist2(ps[i], ps[j])
        d == Sqrt(d2)
        push_strength == (MinDistance(EnemySize, EnemySize) - d) \div 2
        mx == Quot((ps[i][1] - ps[j][1]) * push_strength, 2 * d)
        my == Quot((ps[i][2] - ps[j][2]) * push_strength, 2 * d)
    IN IF /\ d2 < MinDistance(EnemySize, EnemySize) * MinDistance(EnemySize, EnemySize)
          /\ d2 > Tenth * Tenth
       THEN [ps EXCEPT
               ![i] = ValidatePosition(ws, <<ps[i][1] + mx, ps[i][2] + my>>, EnemySize),
               ![j] = ValidatePosition(ws, <<ps[j][1] - mx, ps[j][2] - my>>, EnemySize)]
       ELSE ps

\* the two nested loops over the pairs i < j, in the order of the code
RECURSIVE SeparateEnemies(_, _, _, _)
SeparateEnemies(ws, ps, i, j) ==
    IF i > Len(ps) THEN ps
    ELSE IF j > Len(ps) THEN SeparateEnemies(ws, ps, i + 1, i + 2)
    ELSE SeparateEnemies(ws, SeparatePair(ws, ps, i, j), i, j + 1)

\* velocity * dt of Enemy.update for dt = 1/30: an enemy of speed 60 on
\* patrol (speed * 0.3) towards a patrol target on its row or column, or one
\* that has not been given a velocity yet
EnemySteps == {<<0, 0>>, <<60, 0>>, <<-60, 0>>, <<0, 60>>, <<0, -60>>}

\* the number of ticks the enemies are followed for
MaxTicks == 3

\* where the two enemies stand when they are first looked at: on the row
\* y = 96 below the obstacle tile (5,5), on which spawn_enemies places enemies
\* at x = 48, 64, 80 and 96, and along which they have moved
StartPoints == {<<(40 + 2 * i) * Hundred, 96 * Hundred>> : i \in 0 .. 28}

\* Room(level=1) some ticks after Room.spawn_enemies: two enemies, no closer
\* than the separation pass lets them be
InitEnemies ==
    /\ RoomIdle
    /\ CtlIdle
    /\ SessionIdle
    /\ PlayerIdle
    /\ HazardIdle
    /\ level = 1
    /\ walls = Perimeter \cup {<<5, 5>>}
    /\ \E a, b \in StartPoints :
          /\ Dist2(a, b) >= MinDistance(EnemySize, EnemySize) * MinDistance(EnemySize, EnemySize)
          /\ enemy_pos = <<a, b>>
    /\ room_ticks = 0
    /\ FireIdle
    /\ PlaceIdle
    /\ FrameIdle
    /\ ShopIdle
    /\ AdvIdle
    /\ SightIdle
    /\ TickIdle
    /\ DodgeIdle

\* Room.update(dt, player) followed by Room.check_collisions(player), the
\* enemies' positions: every enemy's Enemy.update adds velocity * dt to pos,
\* then the separation pass; the player is out of the enemies' reach (and more
\* than detection_range away), so check_collisions moves nobody
Room_update_enemies ==
    /\ room_ticks < MaxTicks
    /\ room_ticks' = room_ticks + 1
    /\ \E steps \in [DOMAIN enemy_pos -> EnemySteps] :
          LET moved == [i \in DOMAIN enemy_pos |->
                          <<enemy_pos[i][1] + steps[i][1], enemy_pos[i][2] + steps[i][2]>>]
          IN enemy_pos' = SeparateEnemies(walls, moved, 1, 2)
    /\ UNCHANGED <<ctlVars, roomVars, sessionVars, playerVars, hazardVars, fireVars,
                   placeVars, walls,
                   frameVars, dodgeVars, tickVars, sightVars, advVars, shopVars>>

NextEnemies == Room_update_enemies

SpecEnemies == InitEnemies /\ [][NextEnemies]_vars

\* ------------------------------------------------------------ enemy fire
\* Times of SpecFire are in microseconds; fire_rate is kept in tenths of a
\* shot per second, so that fire_timer >= 1.0 / fire_rate reads
\* fire_timer * fire_rate >= Second * 10.
Second == 1000000

\* Enemy.__init__ and Boss.__init__: fire_rate by kind of enemy, in tenths
FireRates ==
    [basic |-> 5, aggressive |-> 8, sniper |-> 3, rusher |-> 2, Boss |-> 20]

NewFireEnemy(kind) ==
    [enemy_type |-> kind, fire_rate |-> FireRates[kind], fire_timer |-> 0,
     sight_blocked |-> FALSE]

\* Enemy.can_fire, mutated: the line of sight is not looked at
CanFire_Blind(e) == e.fire_timer * e.fire_rate >= Second * 10

\* Enemy.can_fire
CanFire(e) == e.fire_timer * e.fire_rate >= Second * 10 /\ ~e.sight_blocked

\* Enemy.fire_at_player: the enemy afterwards and the length of the list returned
FireAtPlayer(e) ==
    IF CanFire(e) THEN [enemy |-> [e EXCEPT !.fire_timer = 0], bullets |-> 1]
    ELSE [enemy |-> e, bullets |-> 0]

\* the shots an enemy is followed for
MaxShots == 2

\* an enemy of any kind, just constructed
InitFire ==
    /\ RoomIdle
    /\ CtlIdle
    /\ SessionIdle
    /\ PlayerIdle
    /\ HazardIdle
    /\ level = 1
    /\ walls = {}
    /\ enemy_pos = <<>>
    /\ room_ticks = 0
    /\ \E kind \in DOMAIN FireRates : fire_enemy = NewFireEnemy(kind)
    /\ fire_shots = 0
    /\ fire_gap = 0
    /\ PlaceIdle
    /\ FrameIdle
    /\ ShopIdle
    /\ AdvIdle
    /\ SightIdle
    /\ TickIdle
    /\ DodgeIdle

\* Enemy.update(dt, player_pos, walls), the fields fire_at_player reads:
\* within detection_range update_ai_behavior stores the line-of-sight test in
\* sight_blocked, and fire_timer grows by dt.  The timer is followed up to
\* 1.2 / fire_rate.
Enemy_update ==
    /\ fire_enemy.fire_timer * fire_enemy.fire_rate < Second * 12
    /\ \E dt \in RoomDts, detected \in BOOLEAN, blocked \in BOOLEAN :
          /\ fire_enemy' = [fire_enemy EXCEPT
                              !.fire_timer = @ + dt,
                              !.sight_blocked = IF detected THEN blocked ELSE @]
          /\ fire_gap' = fire_gap + dt
    /\ UNCHANGED <<ctlVars, roomVars, sessionVars, playerVars, hazardVars, geoVars,
                   placeVars, fire_shots,
                   frameVars, dodgeVars, tickVars, sightVars, advVars, shopVars>>

\* Enemy.fire_at_player(player_pos), the caller appending what it returns
Enemy_fire_at_player ==
    /\ fire_shots < MaxShots
    /\ fire_enemy' = FireAtPlayer(fire_enemy).enemy
    /\ fire_shots' = fire_shots + FireAtPlayer(fire_enemy).bullets
    /\ fire_gap' = IF FireAtPlayer(fire_enemy).bullets > 0 THEN 0 ELSE fire_gap
    /\ UNCHANGED <<ctlVars, roomVars, sessionVars, playerVars, hazardVars, geoVars, placeVars,
                   frameVars, dodgeVars, tickVars, sightVars, advVars, shopVars>>

NextFire == Enemy_update \/ Enemy_fire_at_player

SpecFire == InitFire /\ [][NextFire]_vars

\* ------------------------------------------------------------ fire and sight
\* SpecSight: an enemy under the ticks of Room.update, each tick its update
\* followed by fire_at_player.  fire_tick keeps of the last tick whether the
\* player was within detection_range, whether update_ai_behavior computed
\* sight_blocked, and the projectiles appended.
InitSight ==
    /\ RoomIdle
    /\ CtlIdle
    /\ SessionIdle
    /\ PlayerIdle
    /\ HazardIdle
    /\ level = 1
    /\ walls = {}
    /\ enemy_pos = <<>>
    /\ room_ticks = 0
    /\ \E kind \in DOMAIN FireRates : fire_enemy = NewFireEnemy(kind)
    /\ fire_shots = 0
    /\ fire_gap = 0
    /\ PlaceIdle
    /\ FrameIdle
    /\ ShopIdle
    /\ AdvIdle
    /\ TickIdle
    /\ DodgeIdle
    /\ fire_tick = <<>>

\* Enemy.update, lines 371-383 and 385-387, for the fields fire_at_player reads
EnemyUpdateSight(e, dt, detected, blocked) ==
    [e EXCEPT !.fire_timer = @ + dt,
              !.sight_blocked = IF detected THEN blocked ELSE @]

\* Room.update, lines 701-706, for one enemy: detected says whether
\* distance_to_player < detection_range, blocked what check_line_of_sight
\* returns
Room_update_fire ==
    /\ fire_shots < MaxShots
    /\ fire_enemy.fire_timer * fire_enemy.fire_rate < Second * 12
    /\ \E dt \in RoomDts, detected \in BOOLEAN, blocked \in BOOLEAN :
          LET e1 == EnemyUpdateSight(fire_enemy, dt, detected, blocked)
              r == FireAtPlayer(e1)
          IN /\ fire_enemy' = r.enemy
             /\ fire_shots' = fire_shots + r.bullets
             /\ fire_gap' = IF r.bullets > 0 THEN 0 ELSE fire_gap + dt
             /\ fire_tick' = [detected |-> detected, computed |-> detected,
                              bullets |-> r.bullets]
    /\ UNCHANGED <<ctlVars, roomVars, sessionVars, playerVars, hazardVars, geoVars,
                   placeVars, frameVars, dodgeVars, tickVars, advVars, shopVars>>

NextSight == Room_update_fire

SpecSight == InitSight /\ [][NextSight]_vars

\* ------------------------------------------------------------ an enemy's tick
\* SpecAdvance: the enemies of a Room (a basic enemy) or of a BossRoom after
\* spawn_boss (the Boss) under Room.update, with the fields Enemy.update and
\* Boss.update advance.  Positions count millionths of a unit, so that
\* velocity * dt is exact; what the behaviour routines read of the player
\* and the walls is an input: detected, blocked and the velocity they set.
MaxAdvances == 6

\* the velocities a behaviour routine leaves: none, and Boss.speed along an axis
Velocities == {<<0, 0>>, <<40, 0>>, <<0, 40>>, <<-40, 0>>}

\* Enemy.__init__, lines 315-343, and Boss.__init__, lines 3593-3607
NewAdvEnemy(cls, x, y) ==
    [cls |-> cls, enemy_type |-> "basic",
     fire_rate |-> FireRates[IF cls = "Boss" THEN "Boss" ELSE "basic"], fire_timer |-> 0,
     sight_blocked |-> FALSE, state_timer |-> 0, last_contact_damage |-> 0,
     special_attack_timer |-> 0, pos |-> <<x * Second, y * Second>>,
     velocity |-> <<0, 0>>]

\* Enemy.update, lines 371-383
EnemyAdvance(e, dt, detected, blocked, v) ==
    LET e1 == [e EXCEPT !.state_timer = @ + dt, !.last_contact_damage = @ + dt]
        e2 == [e1 EXCEPT !.sight_blocked = IF detected THEN blocked ELSE @,
                         !.velocity = v]
    IN [e2 EXCEPT !.pos = <<@[1] + v[1] * dt, @[2] + v[2] * dt>>,
                  !.fire_timer = @ + dt]

\* enemy.update(dt, player.pos, self.walls) of the object: Boss.update for
\* the Boss, lines 3609-3617
AnyUpdate(e, dt, detected, blocked, v) ==
    IF e.cls = "Boss"
      THEN BossUpdate(EnemyAdvance(e, dt, detected, blocked, v), dt).enemy
      ELSE EnemyAdvance(e, dt, detected, blocked, v)

\* Room.update, lines 701-713, for one enemy: in1 and in2 are the inputs of
\* the update of line 702 and of the update of line 710
RoomUpdateEnemy(e, dt, in1, in2) ==
    LET e1 == AnyUpdate(e, dt, in1.detected, in1.blocked, in1.v)
        e2 == FireAtPlayer(e1).enemy
    IN IF e.cls = "Boss"
         THEN AnyUpdate(e2, dt, in2.detected, in2.blocked, in2.v)
         ELSE e2

InitAdvance ==
    /\ RoomIdle
    /\ CtlIdle
    /\ SessionIdle
    /\ PlayerIdle
    /\ HazardIdle
    /\ level = 1
    /\ walls = {}
    /\ enemy_pos = <<>>
    /\ room_ticks = 0
    /\ FireIdle
    /\ PlaceIdle
    /\ FrameIdle
    /\ ShopIdle
    /\ TickIdle
    /\ SightIdle
    /\ DodgeIdle
    /\ adv_enemies \in {<<NewAdvEnemy("Enemy", 100, 100)>>,
                        <<NewAdvEnemy("Boss", 200, 160)>>}
    /\ adv_ticks = 0

\* Room.update(dt, player), the loop of lines 701-713
Room_update_advance ==
    /\ adv_ticks < MaxAdvances
    /\ \E dt \in RoomDts :
         \E in1, in2 \in [detected : BOOLEAN, blocked : BOOLEAN,
                          v : Velocities \cup {adv_enemies[1].velocity}] :
            /\ in1.detected \/ ~in1.blocked
            /\ in2.detected \/ ~in2.blocked
            /\ adv_enemies[1].cls = "Boss" \/ in2 = in1
            /\ adv_enemies' = <<RoomUpdateEnemy(adv_enemies[1], dt, in1, in2)>>
    /\ adv_ticks' = adv_ticks + 1
    /\ UNCHANGED <<ctlVars, roomVars, sessionVars, playerVars, hazardVars, geoVars,
                   fireVars, placeVars, frameVars, dodgeVars, tickVars, sightVars, shopVars>>

NextAdvance == Room_update_advance

SpecAdvance == InitAdvance /\ [][NextAdvance]_vars

\* ------------------------------------------------------------ enemy placement
\* The three placement routines, one draw of a candidate tile a step.  placing
\* holds the routine's name, the floor tiles it tests against, the bound of
\* its while loop, the iterations its for loop still has to run (left), the
\* attempts counter, the candidate tiles drawn for the enemy at hand (counted
\* up to DrawLimit + 1), the tile drawn last, whether the while loop has been
\* left by break, and the tiles of the enemies placed.
DrawLimit == 100

\* the candidate tiles a draw returns: floor tiles of a Room one tile apart,
\* the obstacle tile, a mid-room tile, and a tile of each platform of a
\* HazardRoom
PlaceTiles == {<<3, 3>>, <<4, 3>>, <<5, 5>>, <<10, 10>>, <<19, 15>>}

\* floor_tiles of a Room with the obstacle tile (5,5), lines 624-652
RoomFloorTiles == Rect(1, RoomWidth - 2, 1, RoomHeight - 2) \ {<<5, 5>>}

\* floor_tiles of HazardRoom(level=1) when spawn_hazard_enemies is called
HazardFloorTiles ==
    GenerateHazardRoom(1, [ditch |-> <<<<3, 2>>, <<3, 2>>>>, spawn |-> <<>>]).floor_tiles

NewPlacing(routine, floor, limit, count) ==
    [routine |-> routine, floor_tiles |-> floor, limit |-> limit, left |-> count,
     attempts |-> 0, draws |-> 0, tile |-> <<>>, found |-> FALSE, placed |-> <<>>]

\* Vector2(x, y).distance_to(existing_enemy.pos) < 32 for some enemy placed,
\* x and y being 16 times the tile
TooClose(tile, placed) ==
    \E i \in DOMAIN placed : Dist2(tile, placed[i]) * TileSize * TileSize < 32 * 32

\* one iteration of the while loop of spawn_enemies and of spawn_enemy_wave
PlaceAttempt(pl, tile) ==
    IF tile \in pl.floor_tiles /\ ~TooClose(tile, pl.placed)
    THEN [pl EXCEPT !.placed = Append(@, tile), !.found = TRUE, !.tile = tile,
                    !.draws = Min(@ + 1, DrawLimit + 1)]
    ELSE [pl EXCEPT !.attempts = @ + 1, !.tile = tile,
                    !.draws = Min(@ + 1, DrawLimit + 1)]

\* one iteration of the while loop of spawn_hazard_enemies: continue skips
\* attempts += 1
PlaceHazardAttempt(pl, tile) ==
    IF tile \in pl.floor_tiles
    THEN IF ~OffPlatforms(tile[1], RoomWidth)
         THEN [pl EXCEPT !.tile = tile, !.draws = Min(@ + 1, DrawLimit + 1)]
         ELSE [pl EXCEPT !.placed = Append(@, tile), !.found = TRUE, !.tile = tile,
                         !.draws = Min(@ + 1, DrawLimit + 1)]
    ELSE [pl EXCEPT !.attempts = @ + 1, !.tile = tile,
                    !.draws = Min(@ + 1, DrawLimit + 1)]

\* Room.spawn_enemies of Room(level=1), MultiRoomSystem.spawn_enemy_wave for
\* the first wave of level 1, HazardRoom.spawn_hazard_enemies: the routine at
\* the head of its for loop
InitPlace ==
    /\ RoomIdle
    /\ CtlIdle
    /\ SessionIdle
    /\ PlayerIdle
    /\ HazardIdle
    /\ walls = {}
    /\ enemy_pos = <<>>
    /\ room_ticks = 0
    /\ FireIdle
    /\ FrameIdle
    /\ ShopIdle
    /\ AdvIdle
    /\ SightIdle
    /\ TickIdle
    /\ DodgeIdle
    /\ level = 1
    /\ \/ \E n \in MinEnemies(1) .. MinEnemies(1) + 3 :
            placing = NewPlacing("spawn_enemies", RoomFloorTiles, 100, n)
       \/ placing = NewPlacing("spawn_enemy_wave", RoomFloorTiles, 50,
                               GenerateEnemyWaves(1)[1].enemy_count)
       \/ \E n \in 1 .. 2 :
            placing = NewPlacing("spawn_hazard_enemies", HazardFloorTiles, 30, n)

\* the body of the while loop, once: a tile is drawn and tested
Placement_draw ==
    /\ placing.left > 0
    /\ ~placing.found
    /\ placing.attempts < placing.limit
    /\ \E tile \in PlaceTiles :
          placing' = IF placing.routine = "spawn_hazard_enemies"
                       THEN PlaceHazardAttempt(placing, tile)
                       ELSE PlaceAttempt(placing, tile)
    /\ UNCHANGED <<ctlVars, roomVars, sessionVars, playerVars, hazardVars, geoVars, fireVars,
                   frameVars, dodgeVars, tickVars, sightVars, advVars, shopVars>>

\* the while loop is left, by break or with attempts at the bound, and the
\* for loop goes on to the next enemy
Placement_next_enemy ==
    /\ placing.left > 0
    /\ placing.found \/ placing.attempts >= placing.limit
    /\ placing' = [placing EXCEPT !.left = @ - 1, !.attempts = 0, !.draws = 0,
                                  !.tile = <<>>, !.found = FALSE]
    /\ UNCHANGED <<ctlVars, roomVars, sessionVars, playerVars, hazardVars, geoVars, fireVars,
                   frameVars, dodgeVars, tickVars, sightVars, advVars, shopVars>>

NextPlace == Placement_draw \/ Placement_next_enemy

SpecPlace == InitPlace /\ [][NextPlace]_vars

\* the routine runs on: a step that can be taken is taken
SpecPlaceFair == SpecPlace /\ WF_vars(NextPlace)


\* ------------------------------------------------------------ claims on Spec
NonBossIds(lv) == {c.id : c \in {x \in Range(RoomConfigs(lv)) : x.type # "boss"}}

\* the doors that connect room id to a neighbour, with that neighbour
DoorsOf(lv, id) ==
    {[door |-> DoorId(pr), other |-> IF pr[1] = id THEN pr[2] ELSE pr[1]] :
        pr \in {q \in Range(DoorPairs(lv)) : q[1] = id \/ q[2] = id}}

\* C1: an update that finds the door between the current room and a neighbour
\* open, with the player within 20 units of the door's centre, makes the
\* neighbour the current room and puts the player at the neighbour's entry point.
C1_DoorTransition ==
    [][Update =>
         \A c \in DoorsOf(level, current_room_id) :
            (doors'[c.door].is_open
               /\ Dist2(DoorCentre(doors[c.door]), player_pos) < 20 * 20)
            => (current_room_id' = c.other /\ player_pos' = EntryPoint(c.other))]_vars

\* C2: for every combat room: a wave's spawned flag, once true, stays true (it
\* is set at most once); a cleared wave was spawned; wave k is cleared only
\* after all waves before it; the wave index is the number of cleared waves;
\* the room is in rooms_cleared exactly when its last wave is cleared.
C2_Waves ==
    /\ [](\A id \in DOMAIN enemy_waves :
            LET ws == enemy_waves[id]
            IN /\ \A k \in DOMAIN ws : ws[k].cleared => ws[k].spawned
               /\ \A k \in DOMAIN ws : ws[k].cleared => \A j \in 1 .. k - 1 : ws[j].cleared
               /\ current_wave[id] = Cardinality({k \in DOMAIN ws : ws[k].cleared})
               /\ (id \in rooms_cleared) <=> ws[Len(ws)].cleared)
    /\ [][\A id \in DOMAIN enemy_waves : \A k \in DOMAIN enemy_waves[id] :
            enemy_waves[id][k].spawned => enemy_waves'[id][k].spawned]_vars

\* a room has been cleared wave by wave while another still waits for its
\* second wave
C2_Witness ==
    /\ Room1 \in rooms_cleared
    /\ enemy_waves[Room1][2].cleared
    /\ \E id \in DOMAIN enemy_waves : enemy_waves[id][1].cleared /\ ~enemy_waves[id][2].spawned

\* C3: the update that finds the active combat room's current wave spawned and
\* the room empty advances the wave index by exactly 1 and leaves the next wave
\* unspawned; an update that finds the current wave unspawned and the room
\* empty spawns it.
C3_WaveAdvance ==
    [][Update /\ current_room_id \in DOMAIN enemy_waves
         /\ current_wave[current_room_id] < Len(enemy_waves[current_room_id])
         /\ rooms[current_room_id].enemies = 0
       => LET id == current_room_id
              idx == current_wave[id]
              ws == enemy_waves[id]
          IN IF ws[idx + 1].spawned
               THEN /\ current_wave'[id] = idx + 1
                    /\ idx + 2 <= Len(ws) => ~enemy_waves'[id][idx + 2].spawned
               ELSE enemy_waves'[id][idx + 1].spawned]_vars

\* wave 1 cleared, wave 2 spawned with enemies in the room
C3_Witness ==
    \E id \in DOMAIN enemy_waves :
       /\ current_wave[id] = 1
       /\ enemy_waves[id][2].spawned
       /\ rooms[id].enemies > 0

\* C4: rooms_cleared never loses an element.
C4_ClearedMonotone ==
    [][rooms_cleared \subseteq rooms_cleared'
         /\ Cardinality(rooms_cleared) <= Cardinality(rooms_cleared')]_vars

C4_Witness == Cardinality(rooms_cleared) >= 3

\* C6: rooms_cleared holds only ids of non-boss rooms of the level, total_rooms
\* is the number of non-boss rooms, and when the teleporter is active every
\* non-boss room is in rooms_cleared.
C6_TeleporterMeansAllCleared ==
    /\ rooms_cleared \subseteq NonBossIds(level)
    /\ rooms_cleared \subseteq DOMAIN rooms
    /\ total_rooms = Cardinality(NonBossIds(level))
    /\ teleporter_active => NonBossIds(level) \subseteq rooms_cleared

C6_Witness == teleporter_active /\ level = 4 /\ Cardinality(rooms_cleared) = 6

\* C5: an update that ends with |rooms_cleared| >= total_rooms leaves
\* teleporter_active true; only such an update sets it; once true it stays
\* true, also after a room id has been taken out of rooms_cleared.
C5_TeleporterLatches ==
    [][/\ (Update /\ Cardinality(rooms_cleared') >= total_rooms) => teleporter_active'
       /\ teleporter_active => teleporter_active'
       /\ (~teleporter_active /\ teleporter_active')
            => (Update /\ Cardinality(rooms_cleared') >= total_rooms)]_vars

\* the teleporter is active although a cleared room id has been removed, and
\* the door has moved since (an update has run in that state)
C5_Witness ==
    /\ teleporter_active
    /\ Cardinality(rooms_cleared) < total_rooms
    /\ \E d \in DOMAIN doors : doors[d].open_progress > 0


C8_BossRoomEmptyUntilSpawn ==
    /\ [](room_class = "BossRoom" /\ ~boss_spawned => room_enemies = <<>> /\ boss = <<>>)
    /\ [][BossRoom_spawn_boss /\ ~boss_spawned
            => boss_spawned' /\ boss' # <<>> /\ room_enemies' = boss']_vars

\* C9: every time the Boss's special_attack_timer reaches special_attack_cooldown
\* the 8 bullets of the burst are added to enemy_bullets, so that one burst
\* enters the room per special_attack_cooldown of room time: never more than
\* one in a cooldown, and one in every cooldown plus the frame it ends in.
C9_BurstPerCooldown ==
    /\ burst_bullets = 8 * special_attacks
    /\ special_attacks * SpecialAttackCooldown <= room_time
    /\ \A dt \in RoomDts :
         room_time < (burst_bullets \div 8 + 1) * (SpecialAttackCooldown + dt)

\* C10: the health of every enemy is within [0, max_health], and an enemy
\* whose health reached 0 is not in the room's enemy list once the operation
\* that damaged it is over.
C10_EnemyHealth ==
    /\ \A i \in 1 .. Len(room_enemies) :
         /\ room_enemies[i].health \in 0 .. room_enemies[i].max_health
         /\ room_enemies[i].health # 0
    /\ boss # <<>> => /\ boss[1].health \in 0 .. boss[1].max_health
                      /\ boss[1].health = 0 => ~HasBoss(room_enemies)

\* a regular enemy and the Boss have been shot dead: the Boss, still referenced
\* by the room, is at health 0 and no longer in the list
C10_Witness ==
    /\ enemies_killed = 2
    /\ boss # <<>>
    /\ boss[1].health = 0
    /\ room_enemies = <<>>


\* ------------------------------------------------------------ claims on SpecVolley
\* the health of the enemies of the list es from index i on, added up
RECURSIVE TotalHealth(_, _)
TotalHealth(es, i) == IF i > Len(es) THEN 0 ELSE es[i].health + TotalHealth(es, i + 1)

\* the damages of the bullets of the list bs from index i on, added up
RECURSIVE TotalDamage(_, _)
TotalDamage(bs, i) == IF i > Len(bs) THEN 0 ELSE bs[i] + TotalDamage(bs, i + 1)

C12_InvulnerableUnharmed ==
    player.invulnerable =>
        /\ \A shots \in SeqsUpTo(EnemyBulletDamages, MaxHits),
              contacts \in SeqsUpTo(ContactDamages, MaxContacts) :
             LET q == HitsOnPlayer(player, shots, contacts)
             IN q.health = player.health /\ q.armor = player.armor
        /\ \A kinds \in {{"spike"}, {"lava"}} :
             LET q == CheckHazardDamage(player, kinds)
             IN q.health = player.health /\ q.armor = player.armor

\* the player was hit, lost health and is invulnerable for the damage flash,
\* with armor left that the next hit would take
C12_Witness ==
    /\ player.invulnerable
    /\ ~player.is_dodging
    /\ player.damage_flash_timer > 0
    /\ player.health < player.max_health
    /\ player.health > 0
    /\ player.armor > 0

\* C13: 0 <= player.health <= player.max_health in every reachable state,
\* under any interleaving of projectile, contact and hazard damage, shop
\* purchases and level advances.
C13_HealthInRange ==
    /\ 0 <= player.health
    /\ player.health <= player.max_health

\* damage has brought the health to 0 after a max-health purchase and a
\* level advance
C13_Witness ==
    /\ player.health = 0
    /\ player.max_health > NewPlayer.max_health
    /\ current_level = MaxLevel

\* C15: whenever check_hazard_damage runs with the player's tile in ditches
\* and player.is_dodging false, the player's health is exactly 0 afterwards,
\* for every value of armor and of the invulnerable flag.
C15_DitchKills ==
    ~player.is_dodging => CheckHazardDamage(player, {"ditch"}).health = 0

C16_HazardsDisjoint ==
    /\ hazard_room.ditches \cap hazard_room.spikes = {}
    /\ hazard_room.ditches \cap hazard_room.lava_tiles = {}
    /\ hazard_room.spikes \cap hazard_room.lava_tiles = {}
    /\ hazard_room.ditches \cap hazard_room.floor_tiles = {}
    /\ hazard_room.spikes \cap hazard_room.floor_tiles = {}
    /\ hazard_room.lava_tiles \cap hazard_room.floor_tiles = {}

\* C17: for every level and every random outcome, no tile of the start
\* platform (x 2..5, y 2..4) and no tile of the end platform (x 19..22,
\* y 15..17) is a ditch, spike or lava tile.
C17_PlatformsSafe ==
    (Rect(2, 5, 2, 4) \cup Rect(19, 22, 15, 17))
        \cap (hazard_room.ditches \cup hazard_room.spikes \cup hazard_room.lava_tiles) = {}

\* C18: every enemy placed by the generation of the HazardRoom stands on a
\* floor tile that belongs to neither platform, and at most 2 such enemies
\* are placed.
C18_HazardEnemies ==
    /\ Len(hazard_room.placed) <= 2
    /\ \A i \in 1 .. Len(hazard_room.placed) :
         /\ hazard_room.placed[i] \in hazard_room.floor_tiles
         /\ hazard_room.placed[i] \notin Rect(2, 5, 2, 4) \cup Rect(19, 22, 15, 17)

\* C19: challenge_complete becomes true only in an update in which the
\* player's tile lies in the end-platform region (x 19..22, y 15..17) and the
\* enemy list is empty; once true it never becomes false again.
C19_ChallengeComplete ==
    [][/\ (~hazard_room.challenge_complete /\ hazard_room'.challenge_complete)
            => /\ HazardRoom_update
               /\ TileOf(player_pos) \in Rect(19, 22, 15, 17)
               /\ hazard_room.enemies = 0
       /\ hazard_room.challenge_complete => hazard_room'.challenge_complete]_vars

\* ------------------------------------------------------------ claims on SpecDoor
\* C20: after every Door.update, for any dt >= 0 and any proximity input,
\* 0 <= open_progress <= 1, is_open is true exactly when open_progress > 0.5,
\* and get_collision_rect() returns null exactly when is_open is true and the
\* door's footprint rectangle otherwise.
C20_DoorState ==
    \A door \in Range(doors) \cup {spawn_door} :
        /\ 0 <= door.open_progress
        /\ door.open_progress <= ProgressFull
        /\ door.is_open <=> 2 * door.open_progress > ProgressFull
        /\ GetCollisionRect(door) = <<>> <=> door.is_open
        /\ ~door.is_open =>
               GetCollisionRect(door) = <<door.x, door.y,
                                          IF door.direction = "horizontal" THEN 32 ELSE 16,
                                          IF door.direction = "horizontal" THEN 16 ELSE 32>>

\* updates have left one door fully open, one at exactly half, still closed,
\* and the spawn room's door part open and shut again
C20_Witness ==
    /\ doors["horizontal"].open_progress = ProgressFull
    /\ doors["horizontal"].is_open
    /\ 2 * doors["vertical"].open_progress = ProgressFull
    /\ ~doors["vertical"].is_open
    /\ spawn_door.open_progress = 0

\* ------------------------------------------------------------ claims on SpecSpawn
\* C21: in the spawn room, the player moving less than 16 units a tick, the
\* player's box (half-width size / 2) never overlaps the door rectangle at the
\* end of a tick in which the door is closed, and the transition to the
\* combat rooms happens only in a tick in which the spawn door is open.
C21_ClosedDoorBlocks ==
    /\ []((in_spawn_room /\ ~spawn_door.is_open) =>
            ~(/\ 2 * player_pos[1] + PlayerSize > 2 * spawn_door.x
              /\ 2 * player_pos[1] - PlayerSize < 2 * (spawn_door.x + spawn_door.width)
              /\ 2 * player_pos[2] + PlayerSize > 2 * spawn_door.y
              /\ 2 * player_pos[2] - PlayerSize < 2 * (spawn_door.y + spawn_door.height)))
    /\ [][(in_spawn_room /\ ~in_spawn_room') => spawn_door'.is_open]_vars

\* the player has walked through the open door into the first combat room
C21_Witness ==
    /\ ~in_spawn_room
    /\ current_room_id = Room1
    /\ player_pos = <<200, 200>>
    /\ spawn_door.is_open

\* ------------------------------------------------------------ claims on SpecWalls
\* C22: after one validate_position pass on an entity that was closer to a
\* wall tile's centre than required, the entity's centre is at least
\* size / 2 + 8 (less one hundredth) from the centre of every wall tile, the
\* entity that started at a wall tile's exact centre included.  A wall tile
\* nearer than that is one of the 3x3 tiles around the entity's tile.
C22_PushedClear ==
    [][\A i \in DOMAIN enemy_pos :
         (\E w \in WallsAround(walls, enemy_pos[i]) :
              Dist2(WallCentre(w), enemy_pos[i])
                < RequiredDistance(EnemySize) * RequiredDistance(EnemySize))
         => \A w \in WallsAround(walls, enemy_pos'[i]) :
              Dist2(WallCentre(w), enemy_pos'[i])
                >= (RequiredDistance(EnemySize) - 1) * (RequiredDistance(EnemySize) - 1)]_vars

\* C24: validate_position is idempotent: applied to the position a first
\* application has just left, it returns that position.
C24_Idempotent ==
    [][\A i \in DOMAIN enemy_pos :
         enemy_pos'[i] # enemy_pos[i]
         => ValidatePosition(walls, enemy_pos'[i], EnemySize) = enemy_pos'[i]]_vars

\* ------------------------------------------------------------ claims on SpecEnemies
\* C23: two enemies that enter the separation pass more than 0.1 and less
\* than min_distance = (size1 + size2) / 2 + 5 apart, no wall tile around
\* either, leave it at least min_distance (less two hundredths) apart.
C23_Separated ==
    LET after == SeparateEnemies(walls, enemy_pos, 1, 2)
    IN (/\ Len(enemy_pos) = 2
        /\ Dist2(enemy_pos[1], enemy_pos[2]) > Tenth * Tenth
        /\ Dist2(enemy_pos[1], enemy_pos[2])
             < MinDistance(EnemySize, EnemySize) * MinDistance(EnemySize, EnemySize)
        /\ \A i \in 1 .. 2 : WallsAround(walls, enemy_pos[i]) = {})
       => Dist2(after[1], after[2])
            >= (MinDistance(EnemySize, EnemySize) - 2) * (MinDistance(EnemySize, EnemySize) - 2)

\* C25: at the end of every tick of the room no enemy's centre lies in a
\* wall tile.
C25_EnemiesOffWalls ==
    \A i \in DOMAIN enemy_pos : TileAt(enemy_pos[i]) \notin walls

\* ------------------------------------------------------------ claims on SpecFire
\* C26: fire_at_player emits a projectile only when fire_timer has reached
\* 1 / fire_rate and sight_blocked is false; a firing emits exactly one
\* projectile and resets fire_timer to 0, and the enemy's update calls have
\* accumulated at least 1 / fire_rate since its previous shot.
C26_FireRate ==
    [][fire_shots' # fire_shots =>
         /\ fire_enemy.fire_timer * fire_enemy.fire_rate >= Second * 10
         /\ ~fire_enemy.sight_blocked
         /\ fire_shots' = fire_shots + 1
         /\ fire_enemy'.fire_timer = 0
         /\ fire_gap * fire_enemy.fire_rate >= Second * 10]_vars

\* the enemy has just fired its second shot
C26_Witness ==
    /\ fire_enemy # <<>>
    /\ fire_shots = 2
    /\ fire_enemy.fire_timer = 0
    /\ fire_gap = 0

\* ------------------------------------------------------------ more claims on Spec
\* C27: an update in which check_room_transitions finds an open door with the
\* player within 20 of its centre, and derives for every such door a target
\* that is no key of rooms, leaves current_room_id and the player's position
\* as they were.
C27_UnknownTarget ==
    [][Update =>
         LET touched == {d \in DOMAIN doors :
                           /\ doors'[d].is_open
                           /\ Dist2(DoorCentre(doors[d]), player_pos) < 20 * 20}
         IN (/\ touched # {}
             /\ \A d \in touched : TargetRoom(d, current_room_id) \notin DOMAIN rooms)
            => (current_room_id' = current_room_id /\ player_pos' = player_pos)]_vars

\* the player stands in a doorway whose door an update has opened fully, and
\* is still in the first room
C27_Witness ==
    /\ current_room_id = Room1
    /\ \E d \in DOMAIN doors :
          /\ doors[d].open_progress = ProgressFull
          /\ Dist2(DoorCentre(doors[d]), player_pos) < 20 * 20
          /\ TargetRoom(d, current_room_id) \notin DOMAIN rooms

\* ------------------------------------------------------------ claims on SpecPlaceFair
\* C28: every placement routine draws at most 100 candidate tiles for an
\* enemy and then gives up on it, and so comes to its end whatever the draws
\* are.
C28_PlacementTerminates ==
    /\ [](placing.draws <= DrawLimit)
    /\ <>(placing.left = 0)

\* ------------------------------------------------------------ claims on SpecDoorFair
\* C29: a door that goes on being updated with the player within its
\* proximity radius ends open with open_progress 1, one with the player
\* outside ends closed with open_progress 0, and no update changes
\* open_progress by more than open_speed * dt or away from its target.
C29_DoorConverges ==
    /\ [](\A dt \in DoorDts, player_nearby \in BOOLEAN, k \in 1 .. 3 :
            LET door == IF k = 1 THEN doors["horizontal"]
                        ELSE IF k = 2 THEN doors["vertical"] ELSE spawn_door
                p == door.open_progress
                q == DoorUpdate(door, dt, player_nearby).open_progress
            IN /\ q - p <= OpenStep(dt)
               /\ p - q <= OpenStep(dt)
               /\ player_nearby => q >= p
               /\ ~player_nearby => q <= p)
    /\ <>[](\E pos \in {player_pos} : PlayerNearby(doors["horizontal"], pos))
         => <>[](doors["horizontal"].is_open /\ doors["horizontal"].open_progress = ProgressFull)
    /\ <>[](~(\E pos \in {player_pos} : PlayerNearby(doors["horizontal"], pos)))
         => <>[](~doors["horizontal"].is_open /\ doors["horizontal"].open_progress = 0)
    /\ <>[](\E pos \in {player_pos} : PlayerNearby(doors["vertical"], pos))
         => <>[](doors["vertical"].is_open /\ doors["vertical"].open_progress = ProgressFull)
    /\ <>[](~(\E pos \in {player_pos} : PlayerNearby(doors["vertical"], pos)))
         => <>[](~doors["vertical"].is_open /\ doors["vertical"].open_progress = 0)
    /\ <>[](\E pos \in {player_pos} : SpawnPlayerNearby(spawn_door, pos))
         => <>[](spawn_door.is_open /\ spawn_door.open_progress = ProgressFull)
    /\ <>[](~(\E pos \in {player_pos} : SpawnPlayerNearby(spawn_door, pos)))
         => <>[](~spawn_door.is_open /\ spawn_door.open_progress = 0)

\* a door of the level stands fully open with the player next to it while the
\* spawn room's door, which the player has left, is shut again
C29_Witness ==
    /\ PlayerNearby(doors["horizontal"], player_pos)
    /\ doors["horizontal"].is_open
    /\ doors["horizontal"].open_progress = ProgressFull
    /\ ~SpawnPlayerNearby(spawn_door, player_pos)
    /\ spawn_door.open_progress = 0
    /\ doors["vertical"].open_progress > 0

\* C30: MultiRoomSystem.update changes the enemies, the projectiles, the
\* cleared flag and the wave state (the spawned and cleared flags of the
\* waves, the wave index) of the active room only: those of every other
\* room of the level are after the update what they were before it.
C30_OtherRoomsUnchanged ==
    [][MultiRoomSystem_update =>
         \A id \in DOMAIN rooms \ {current_room_id} :
            /\ rooms'[id].enemies = rooms[id].enemies
            /\ rooms'[id].cleared = rooms[id].cleared
            /\ room_bullets'[id] = room_bullets[id]
            /\ id \in DOMAIN enemy_waves =>
                 /\ enemy_waves'[id] = enemy_waves[id]
                 /\ current_wave'[id] = current_wave[id]]_vars

\* the active room has been updated (its first wave is over, the second one
\* spawned, a bullet in flight has aged) while another room holds a bullet in
\* flight, an enemy and a wave that has not started
C30_Witness ==
    \E id \in DOMAIN enemy_waves \ {current_room_id} :
       /\ current_room_id \in DOMAIN enemy_waves
       /\ enemy_waves[current_room_id][1].cleared
       /\ enemy_waves[current_room_id][2].spawned
       /\ current_wave[current_room_id] = 1
       /\ rooms[current_room_id].cleared
       /\ \E dt \in FrameDts : room_bullets[current_room_id].player_bullets = <<dt>>
       /\ room_bullets[id].player_bullets # <<>>
       /\ rooms[id].enemies > 0
       /\ ~enemy_waves[id][1].spawned

\* C38: in every reachable state damage_flash_timer > 0 implies
\* player.invulnerable: a player who was hit stays invulnerable for the whole
\* flash window, whatever dodge rolls start or end in it.
C38_FlashMeansInvulnerable ==
    player.damage_flash_timer > 0 => player.invulnerable

\* C39: in every reachable state player.is_dodging implies
\* player.invulnerable, under any interleaving of update, dodge_roll and
\* take_damage.
C39_DodgingMeansInvulnerable ==
    player.is_dodging => player.invulnerable

\* a player who was hit is in a dodge roll that has outlasted the damage
\* flash, and is still invulnerable
C39_Witness ==
    /\ player.is_dodging
    /\ player.dodge_timer > 0
    /\ player.damage_flash_timer = 0
    /\ player.health < player.max_health
    /\ player.invulnerable

\* C40: a dodge roll starts only from a player that is not dodging and whose
\* cooldown has run out; a dodge is over as soon as 0.4 s of update time has
\* been added to its timer, so no dodging player has a timer at or above the
\* duration; no dodge starts while another is running; between two starts
\* at least 1.0 s of update time passes; and while update keeps being called
\* with dt > 0 every dodge ends.
C40_DodgeRoll ==
    /\ [][(player'.is_dodging /\ (~player.is_dodging \/ dodge_starts' # dodge_starts))
            => /\ ~player.is_dodging
               /\ player.dodge_cooldown_timer = 0
               /\ player'.dodge_timer = 0
               /\ (dodge_gap # -1 => dodge_gap >= DodgeCooldown)]_vars
    /\ [][(player.is_dodging /\ dodge_gap' > dodge_gap /\ dodge_starts' = dodge_starts)
            => player'.is_dodging = (player'.dodge_timer < DodgeDuration
                                     /\ player'.dodge_timer > player.dodge_timer)]_vars
    /\ [](player.is_dodging => player.dodge_timer < DodgeDuration)
    /\ (player.is_dodging ~> ~player.is_dodging)

\* a second dodge has started, the cooldown of the first one over
C40_Witness ==
    /\ player.is_dodging
    /\ dodge_starts = 2
    /\ dodge_gap = 0
    /\ player.dodge_cooldown_timer = DodgeCooldown

\* C37: a combat tick applies at most one damage event to the player: over
\* the enemy bullets, the enemies in contact and the hazard tile of the tick
\* the armor goes down by 1 at most, the health goes down by the damage of
\* one of the sources that touched the player (to 0 in a ditch), and never
\* both armor and health go down.
C37_OneDamageEvent ==
    last_tick # <<>> =>
        LET drop == last_tick.health - combat_health
            lost == last_tick.armor - player.armor
        IN /\ lost \in {0, 1}
           /\ lost = 1 => drop = 0
           /\ drop \in {0} \cup {Min(last_tick.health, a) : a \in last_tick.amounts}
                         \cup (IF last_tick.ditch THEN {last_tick.health} ELSE {})

\* a tick in which two bullets and an enemy touched an unarmored player and
\* the health went down by one bullet's damage
C37_Witness ==
    /\ last_tick # <<>>
    /\ last_tick.touches = 3
    /\ last_tick.armor = 0
    /\ last_tick.health - combat_health \in EnemyBulletDamages

\* ------------------------------------------------------------ claims on SpecSight
\* C36: a tick of Room.update in which the enemy adds a projectile is a tick
\* in which the player is within the enemy's detection_range and in which
\* sight_blocked was computed.
C36_FiresOnlyOnDetection ==
    (fire_tick # <<>> /\ fire_tick.bullets > 0) =>
        fire_tick.detected /\ fire_tick.computed

\* ------------------------------------------------------------ claims on SpecAdvance
\* C35: a call of Room.update advances every enemy of the room once: the
\* position moves by velocity * dt, state_timer and last_contact_damage grow
\* by dt, fire_timer grows by dt unless the enemy fired, and the Boss's
\* special_attack_timer grows by dt unless the burst went off.
C35_AdvancedOnce ==
    [][adv_ticks' # adv_ticks =>
         \A i \in DOMAIN adv_enemies : \E dt \in RoomDts :
            LET e == adv_enemies[i]
                f == adv_enemies'[i]
            IN /\ f.pos = <<e.pos[1] + f.velocity[1] * dt, e.pos[2] + f.velocity[2] * dt>>
               /\ f.state_timer = e.state_timer + dt
               /\ f.last_contact_damage = e.last_contact_damage + dt
               /\ f.fire_timer \in {e.fire_timer + dt, 0}
               /\ f.cls = "Boss"
                    => f.special_attack_timer \in {e.special_attack_timer + dt, 0}]_vars

\* ------------------------------------------------------------ claims on SpecShop
\* C31: with the shop open a W key press moves selected_item to the item
\* before and an S key press to the item after, wrapping at both ends.
C31_SelectionMoves ==
    [][(shop.is_open /\ last_key' \in {"w", "s"}) =>
          shop'.selected_item =
              (shop.selected_item + (IF last_key' = "w" THEN Len(Items) - 1 ELSE 1))
                % Len(Items)]_vars

\* C32: a successful Ammo Pack purchase leaves every gun that counts its
\* ammo, an empty one too, with min(ammo + 50, 99), and a gun with ammo -1 as
\* it was.
C32_AmmoPack ==
    [][money' = money - Items[6].price =>
          \A i \in DOMAIN guns :
             guns'[i].ammo = IF guns[i].ammo = -1 THEN -1
                             ELSE Min(guns[i].ammo + Items[6].value, 99)]_vars

C34_ControllerKept ==
    [][(teleporter_active /\ ~in_spawn_room /\ in_spawn_room') => teleporter_active']_vars

=============================================================================
